---- MODULE Spec2Model ----
(***************************************************************************)
(* contindi: the event state machine (events/base.py, events/*.py), the    *)
(* time-window wrapper (events/constraints.py), the catalog-driven         *)
(* scheduler loop (scheduler/scheduler.py), the connection with its worker *)
(* process and device mirror (system.py, switch.py, command.py) and the    *)
(* chunker of the received text (parsing.py).                              *)
(*                                                                         *)
(* Every method is an operator  Op(e, w)  from an event record  e  and a   *)
(* world record  w  to a result  [e, w, exc] :  the event and the world    *)
(* after the call, and whether the call raised to its caller.  A Python    *)
(* exception is modelled where the code raises it, with the assignments    *)
(* made before it kept.                                                    *)
(*                                                                         *)
(* The specifications:                                                     *)
(*   SpecEv     one event tree (leaf, series or time-window wrapper)       *)
(*              driven through _trigger/_update/_cancel/cancel by a        *)
(*              client, as the scheduler loop drives it;                   *)
(*   SpecSched  the run_schedule loop over a small job catalog.  The       *)
(*              time-window layer of parse_job raises out of the first     *)
(*              sweep that updates it (constraints.py 33, base.py 122-126) *)
(*              and ends the loop; so that the loop's arbitration over     *)
(*              events that do run is covered as well, SpecSched also has  *)
(*              the runs in which the map holds each job's event without   *)
(*              that layer (window = FALSE);                               *)
(*   SpecCxn    one client calling state, set_value and close on a         *)
(*              Connection whose worker serves the task queue, writes to   *)
(*              the socket and applies what the remote sends and echoes;   *)
(*   SpecMirror the worker alone, applying batches of def, set, delete,    *)
(*              message, unknown and malformed elements to its State;      *)
(*   SpecChunk  chunk_xml over a text that arrives piece by piece;         *)
(*   SpecRecv   the worker's receive step: recv, chunk_xml, and further    *)
(*              recv while text is left over;                              *)
(*   SpecQueue  the queue-driven Scheduler worker (scheduler.py): events   *)
(*              and clear commands arrive on its task queue.               *)
(***************************************************************************)
EXTENDS Integers, Sequences, FiniteSets, TLC

VARIABLES
    now,        \* time.time() / datetime.now(): seconds (and JD, same unit)
    hw,         \* the device mirror read through cxn: mount, wheel
    ev,         \* SpecEv: the event under test
    elog,       \* SpecEv: log lines of the event's job
    last,       \* SpecEv: the call on ev that led to this state, whether it
                \*         raised, whether ev was done before it; op = "env"
                \*         when the environment moved last
    hist,       \* SpecEv: indices of sub-events in the order first seen Finished
    jobs,       \* SpecSched: the catalog, job id -> record
    event_map,  \* SpecSched: run_schedule's event_map, in iteration order
    pc,         \* SpecSched: "idle" between iterations, "crashed" once an
                \*            exception has left the while loop
    sweep,      \* SpecSched: what the last sweep saw and did
    window,     \* SpecSched: TRUE: the map holds the events parse_job
                \*            returns; FALSE: it holds the events under
                \*            their time-window layer
    state,          \* SpecCxn: the worker's State, device -> property -> vector
    first_time,     \* SpecCxn: the worker's first_time flag
    alive,          \* SpecCxn: process.is_alive()
    task_queue,     \* SpecCxn: client -> worker
    response_queue, \* SpecCxn: worker -> client
    sent,           \* SpecCxn: what the worker has written to the socket
    client,         \* SpecCxn: the client's call in progress, its locals
                    \*          and what its last call gave it
    clock,          \* SpecCxn: time.time(), in units of half a timeout
    trace,          \* SpecCxn: what the remote and the worker have done:
                    \*          devices defined, snapshots made, commands
                    \*          answered, the outcome of the last recv
    partial,        \* SpecChunk: the text received so far, a sequence of
                    \*            characters
    chunks,         \* SpecChunk: the elements chunk_xml finds in partial
    recvs,          \* SpecChunk: the pieces of text received
    new_elements,   \* SpecRecv: the worker's list of elements to apply
    rem,            \* SpecRecv: the text chunk_xml left over
    rpc,            \* SpecRecv: where the worker is: "select" before a
                    \*           first recv, "more" in the while rem loop,
                    \*           "apply" with the elements to parse
    sched,          \* SpecQueue: the Scheduler worker: its task queue and
                    \*            its locals event_list and running
    events,         \* SpecQueue: the events submitted, id -> priority and
                    \*            status
    marks           \* SpecQueue: what the clears so far have done: the
                    \*            events dropped, the active events dropped
                    \*            without cancel, the dropped events
                    \*            triggered afterwards

evars == <<now, hw, ev, elog, last, hist, jobs, event_map, pc, sweep, window>>
cvars == <<state, first_time, alive, task_queue, response_queue, sent,
           client, clock, trace>>
kvars == <<partial, chunks, recvs, new_elements, rem, rpc>>
qvars == <<sched, events, marks>>
vars == <<evars, cvars, kvars, qvars>>

NoCxn == UNCHANGED <<cvars, kvars, qvars>>
NoEvents == UNCHANGED <<evars, kvars, qvars>>

---------------------------------------------------------------------------
(* Bounds of the model *)

MaxNow == 100       \* the clock stops here
TickStep == 46      \* seconds that pass between two observations
MaxSubs == 2        \* longest series built for SpecEv
MaxJobs == 2        \* job ids in the catalog
MaxTrig == 2        \* trigger-call counter saturates here
Duration == 10      \* exposure time of every Capture
CxAll == 9          \* cxn reads that succeed when the connection stays up
MaxCalls == 2       \* calls the client makes on one connection
MaxPolls == 1       \* snapshots one blocking set_value polls
MaxFeeds == 2       \* times the remote sends something of its own accord
MaxRecvs == 6       \* pieces of text received under SpecChunk
MaxEvents == 3      \* events submitted to the Scheduler worker
MaxTasks == 2       \* commands waiting on the Scheduler's task queue
MaxClears == 2      \* clear commands a client sends
MaxClock == 2       \* the connection's clock stops here
Timeout == 2        \* Connection.timeout, in ticks of the connection's clock

(* Program constants *)

DefaultMaxTime == 45    \* Event.max_time default
SeriesSlack == 10       \* SeriesEvent.max_time = sum + 10
CaptureSlack == 5       \* Capture.max_time = duration + 5

NoTime == 0 - 1         \* None for _start_time / start_time / end_time

Min(a, b) == IF a < b THEN a ELSE b

STATUSES == {"NotReady", "Ready", "Running", "Finished", "Canceling", "Failed"}

\* EventStatus.is_done: base.py 22-24
is_done(s) == s \in {"Finished", "Failed"}

\* EventStatus.is_active: base.py 26-28
is_active(s) == s \in {"Running", "Canceling"}

---------------------------------------------------------------------------
(* The device mirror.  The wheel's FILTER_NAME vector maps slot i to       *)
(* FilterNames[i]; the mount points at a target id.                        *)

FilterNames == <<"R", "G">>
Slots == 1..Len(FilterNames)
Targets == {0, 1}

HasFilter(f) == \E i \in Slots : FilterNames[i] = f
SlotOf(f) == CHOOSE i \in Slots : FilterNames[i] = f

Hw0 == [pointing |-> 0, goal |-> 0, slot |-> 1, stamp |-> 0]

---------------------------------------------------------------------------
(* Results and world helpers *)

Ok(e, w) == [e |-> e, w |-> w, exc |-> FALSE]
Raise(e, w) == [e |-> e, w |-> w, exc |-> TRUE]

\* cache.update_job(job_id, log=msg): scheduler/cache.py 53-69 (log branch)
Log(w, msg) == [w EXCEPT !.log = @ \cup {msg}]

\* Connection.state: system.py 302-315.  Raises when the worker is gone or
\* does not answer; w.cx counts the reads that still succeed in this call.
CxOk(w) == w.cx > 0
Read(w) == [w EXCEPT !.cx = @ - 1]

\* solve and frame are the fields of the job's record as cache.get_job
\* returns them (scheduler/jobs.py 49-50); jobOk: the record can be fetched
World(lg, h, t, cx, setOk, frameOk) ==
    [log |-> lg, hw |-> h, now |-> t, cx |-> cx, setOk |-> setOk,
     frameOk |-> frameOk, frames |-> 0, solve |-> "NONE", frame |-> "",
     jobOk |-> TRUE]

\* the call of a method of job id's event: the log it writes is the job's
JobWorld(js, id, h, t, in) ==
    [World(js[id].log, h, t, in[1], in[2], in[3])
       EXCEPT !.solve = js[id].solve, !.frame = js[id].frame]

\* SolveStatus as events/capture.py and events/sync.py import it
\* (from ..cache): cache.py 12-16
SolveStatus == {"Unsolved", "Solved", "SolveFailed", "DontSolve"}

\* SolveStatus of the job records: scheduler/jobs.py 13-17
JobSolve == {"UNSOLVED", "SOLVED", "SOLVE_FAILED", "DONT_SOLVE"}

\* SolveStatus.<name>: an Enum raises AttributeError for a name that is
\* not one of its members
HasMember(name) == name \in SolveStatus

\* What the environment does to one call: <<reads that succeed, whether a
\* blocking set_value is confirmed in time, whether add_frame succeeds>>;
\* at most one of the three goes wrong in a call.
Inputs ==
    {<<c, TRUE, TRUE>> : c \in 0..2 \cup {CxAll}}
    \cup {<<CxAll, FALSE, TRUE>>, <<CxAll, TRUE, FALSE>>}

---------------------------------------------------------------------------
(* Leaf events *)

\* The fields of the Event dataclass (base.py 65-78) and of its subclasses,
\* in one record shape: a leaf has no event_list, a series its sub-events
\* and the cursor (current = Python's current + 1), a time-window wrapper
\* its wrapped event as event_list[1] and no job_id.
EventRec(kind, job_id, priority, max_time, status) ==
    [kind |-> kind, job_id |-> job_id, priority |-> priority,
     max_time |-> max_time, start |-> NoTime, status |-> status,
     target |-> 0, filt |-> "", duration |-> 0, aux |-> NoTime, trig |-> 0,
     current |-> 0, event_list |-> <<>>,
     start_time |-> NoTime, end_time |-> NoTime]

\* Slew.__init__: slew.py 7-15 (max_time is the Event default, base.py 71)
Slew(job_id, target, priority) ==
    [EventRec("Slew", job_id, priority, DefaultMaxTime, "Ready")
       EXCEPT !.target = target]

\* SetFilter.__init__: filter.py 6-11
SetFilter(job_id, filt, priority) ==
    [EventRec("SetFilter", job_id, priority, DefaultMaxTime, "Ready")
       EXCEPT !.filt = filt]

\* Capture.__init__: capture.py 7-13
Capture(job_id, duration, priority) ==
    [EventRec("Capture", job_id, priority, duration + CaptureSlack, "Ready")
       EXCEPT !.duration = duration]

Called(e) == [e EXCEPT !.trig = Min(@ + 1, MaxTrig)]

\* Slew.trigger: slew.py 39-60
Slew_trigger(e0, w) ==
    LET e == Called(e0) IN
    IF ~CxOk(w) THEN Raise(e, w)                      \* _cur_dist reads cxn
    ELSE LET w1 == Read(w) IN
      IF w1.hw.pointing = e.target
      THEN Ok([e EXCEPT !.status = "Finished"],
              Log(w1, "Slew not done, within 5 arcseconds of target."))
      ELSE LET e1 == [e EXCEPT !.status = "Running"]
               w2 == Log(w1, "Slewing")
           IN  \* set_value(ON_COORD_SET, SLEW="On") blocks until echoed
               IF ~CxOk(w2) \/ ~w2.setOk THEN Raise(e1, w2)
               ELSE LET w3 == Read(w2) IN
                 \* set_value(EQUATORIAL_EOD_COORD, RA=, DEC=, block=False)
                 IF ~CxOk(w3) THEN Raise(e1, w3)
                 ELSE Ok(e1, [Read(w3) EXCEPT !.hw.goal = e.target])

\* Slew.update: slew.py 23-30
Slew_update(e, w) ==
    IF e.status # "Running" THEN Ok(e, w)
    ELSE IF ~CxOk(w) THEN Raise(e, w)
    ELSE IF w.hw.pointing = e.target
         THEN Ok([e EXCEPT !.status = "Finished"], Log(Read(w), "Slew complete"))
         ELSE Ok(e, Read(w))

\* Slew.cancel: slew.py 17-21.  set_value(mount, "TELESCOPE_ABORT_MOTION",
\* "On", block=False) binds "On" to the parameter block (system.py 109-117)
\* and then passes block again: TypeError before status is assigned.
Slew_cancel(e, w) == Raise(e, w)

\* SetFilter.update: filter.py 21-30
SetFilter_update(e, w) ==
    IF e.status # "Running" THEN Ok(e, w)
    ELSE IF ~CxOk(w) THEN Raise(e, w)
    ELSE IF w.hw.slot = e.aux
         THEN Ok([e EXCEPT !.status = "Finished"], Log(Read(w), "Filter changed"))
         ELSE Ok(e, Read(w))

\* SetFilter.trigger: filter.py 32-63
SetFilter_trigger(e0, w) ==
    LET e == Called(e0) IN
    IF ~CxOk(w) THEN Raise(e, w)                      \* FILTER_NAME lookup
    ELSE LET w1 == Read(w) IN
      IF ~HasFilter(e.filt)
      THEN Ok([e EXCEPT !.status = "Failed"],
              Log(w1, "Selected filter not in the available filter list"))
      ELSE LET e1 == [e EXCEPT !.aux = SlotOf(e.filt)] IN
        IF ~CxOk(w1) THEN Raise(e1, w1)               \* FILTER_SLOT read
        ELSE LET w2 == Log(Read(w1), "Changing filter")
                 e2 == [e1 EXCEPT !.status = "Running"]
             IN IF (e2.aux - w2.hw.slot) % Len(FilterNames) = 0
                THEN SetFilter_update(e2, w2)
                \* set_value(wheel, "FILTER_SLOT", slot_id, block=False):
                \* slot_id lands on block, block is passed twice: TypeError
                ELSE Raise(e2, w2)

\* SetFilter.cancel: filter.py 13-19
SetFilter_cancel(e, w) == Ok([e EXCEPT !.status = "Failed"], Log(w, "Canceled"))

\* Capture.trigger: capture.py 40-49
Capture_trigger(e0, w) ==
    LET e == Called(e0)
        w1 == Log(w, "Exposure for")
    IN  IF ~CxOk(w1) THEN Raise(e, w1)                \* CCD1 timestamp read
        \* set_value(camera, "CCD_EXPOSURE", duration, block=False):
        \* duration lands on block, block is passed twice: TypeError
        ELSE Raise([e EXCEPT !.aux = w1.hw.stamp, !.status = "Running"], Read(w1))

\* cache.add_frame(job_id, frame) has been called: capture.py 26
add_frame(w) == IF w.frameOk THEN [w EXCEPT !.frames = @ + 1] ELSE w

\* Capture.update: capture.py 19-38.  The arguments of the update_job
\* call of lines 27-31 are evaluated after add_frame has returned;
\* SolveStatus.UNSOLVED is looked up in the enum of cache.py.
Capture_update(e, w) ==
    IF e.status # "Running" THEN Ok(e, w)
    ELSE IF ~CxOk(w) THEN Raise(e, w)
    ELSE LET w1 == Read(w) IN
      IF e.aux = w1.hw.stamp THEN Ok(e, w1)
      ELSE IF w1.frameOk /\ HasMember("UNSOLVED")
           THEN Ok([e EXCEPT !.status = "Finished"],
                   Log([add_frame(w1) EXCEPT !.solve = "UNSOLVED"],
                       "Exposure complete"))
           ELSE Ok([e EXCEPT !.status = "Failed"],
                   Log(add_frame(w1), "Exposure failed to upload file"))

\* Capture.cancel: capture.py 15-17
Capture_cancel(e, w) == Ok([e EXCEPT !.status = "Failed"], w)

\* _Sync.__init__: sync.py 12-16 (max_time is the Event default, base.py
\* 71); aux holds attempts
Sync_init(job_id, priority) ==
    [EventRec("_Sync", job_id, priority, DefaultMaxTime, "Ready")
       EXCEPT !.aux = 0]

\* _Sync.trigger: sync.py 82-84
Sync_trigger(e0, w) == Ok([Called(e0) EXCEPT !.status = "Running"], w)

\* _Sync.cancel: sync.py 18-21
Sync_cancel(e, w) == Ok([e EXCEPT !.status = "Failed"], Log(w, "Canceled"))

\* _Sync.update from line 48 on: sync.py 48-80.  Line 71 compares with
\* UNSOLVED a second time, so SOLVE_FAILED matches no branch; lines 72 and
\* 76 read job.jd, which Job (scheduler/jobs.py 34-51) does not have.
Sync_solve(e, w) ==
    IF ~HasMember("UNSOLVED") THEN Raise(e, w)
    ELSE IF w.solve = "UNSOLVED" THEN Ok(e, w)
    ELSE IF ~HasMember("SOLVED") THEN Raise(e, w)
    ELSE IF w.solve = "SOLVED"
         THEN LET w1 == Log(w, "Solve succeeded and mount sync updated")
              IN  \* two blocking set_value calls: sync.py 68-69
                  IF w1.cx < 2 \/ ~w1.setOk THEN Raise(e, w1)
                  ELSE Ok([e EXCEPT !.status = "Finished"], Read(Read(w1)))
    ELSE IF ~HasMember("DONT_SOLVE") THEN Raise(e, w)
    ELSE IF w.solve = "DONT_SOLVE" THEN Raise(e, w)
    ELSE Ok(e, w)

\* _Sync.update: sync.py 23-80
Sync_update(e, w) ==
    IF e.status # "Running" THEN Ok(e, w)
    ELSE IF ~w.jobOk
         THEN Ok([e EXCEPT !.aux = Min(@ + 1, 10), !.status = "Failed"], w)
    ELSE IF w.frame = "" /\ Min(e.aux + 1, 10) = 10
         THEN Ok([e EXCEPT !.aux = 10, !.status = "Failed"],
                 Log(w, "Sync failed after 10 attempts."))
    ELSE Sync_solve([e EXCEPT !.aux = Min(@ + 1, 10)], w)

IsLeaf(e) == e.kind \in {"Slew", "SetFilter", "Capture", "_Sync"}

Leaf_trigger(e, w) ==
    CASE e.kind = "Slew" -> Slew_trigger(e, w)
      [] e.kind = "SetFilter" -> SetFilter_trigger(e, w)
      [] e.kind = "Capture" -> Capture_trigger(e, w)
      [] e.kind = "_Sync" -> Sync_trigger(e, w)

Leaf_update(e, w) ==
    CASE e.kind = "Slew" -> Slew_update(e, w)
      [] e.kind = "SetFilter" -> SetFilter_update(e, w)
      [] e.kind = "Capture" -> Capture_update(e, w)
      [] e.kind = "_Sync" -> Sync_update(e, w)

Leaf_cancel(e, w) ==
    CASE e.kind = "Slew" -> Slew_cancel(e, w)
      [] e.kind = "SetFilter" -> SetFilter_cancel(e, w)
      [] e.kind = "Capture" -> Capture_cancel(e, w)
      [] e.kind = "_Sync" -> Sync_cancel(e, w)

---------------------------------------------------------------------------
(* The classes that hold events: SeriesEvent (base.py 165-202) and         *)
(* TimeConstrained (constraints.py 10-50)                                  *)

RECURSIVE SumMaxTime(_)
SumMaxTime(l) == IF l = <<>> THEN 0 ELSE Head(l).max_time + SumMaxTime(Tail(l))

\* SeriesEvent.__init__: base.py 166-173.  status is never assigned: it is
\* the dataclass default NotReady (base.py 77).
SeriesEvent(job_id, priority, event_list) ==
    [EventRec("Series", job_id, priority,
              SumMaxTime(event_list) + SeriesSlack, "NotReady")
       EXCEPT !.event_list = event_list, !.current = 1]

\* Event.__add__: base.py 143-162 (both operands of one job)
Add(a, b) ==
    SeriesEvent(a.job_id, a.priority,
                (IF a.kind = "Series" THEN a.event_list ELSE <<a>>)
                \o (IF b.kind = "Series" THEN b.event_list ELSE <<b>>))

\* SeriesEvent._event: base.py 175-177
Cur(s) == s.event_list[s.current]
SetCur(s, sub) == [s EXCEPT !.event_list[s.current] = sub]

\* TimeConstrained.__init__: constraints.py 17-26.  max_time, _start_time
\* and status are the dataclass defaults of Event (base.py 71-78).
TimeConstrained(event, start_time, end_time) ==
    [EventRec("TimeConstrained", 0, event.priority, DefaultMaxTime, "NotReady")
       EXCEPT !.event_list = <<event>>, !.current = 1,
              !.start_time = start_time, !.end_time = end_time]

Inner(t) == t.event_list[1]
SetInner(t, e) == [t EXCEPT !.event_list[1] = e]

---------------------------------------------------------------------------
(* Event: the guarded entry points every event inherits (base.py 97-138),  *)
(* each after the methods it reaches.  Ev_trigger, Ev_cancel and Ev_update *)
(* are trigger, cancel and update of the event's own class.  A call's      *)
(* result is handed on as a parameter r (or u, c, t).                      *)

\* TimeConstrained.__init__ (constraints.py 17-26) assigns no job_id and
\* the dataclass leaves no class default for it (base.py 65): reading
\* self.job_id on a wrapper raises AttributeError.
HasJobId(e) == e.kind # "TimeConstrained"

\* self.status = Failed; cache.update_job(self.job_id, log=msg): the body of
\* the except-branches of _cancel/_update/_trigger (base.py 103-106,
\* 123-126, 135-138).  Without a job_id the AttributeError leaves the method.
FailWith(e, w, msg) ==
    LET f == [e EXCEPT !.status = "Failed"] IN
    IF HasJobId(e) THEN Ok(f, Log(w, msg)) ELSE Raise(f, w)

\* try: ... except Exception: around a call with result r
Caught(r, msg) == IF r.exc THEN FailWith(r.e, r.w, msg) ELSE r

\* the result r of a call on the current sub-event, as the series' result
InCur(s, r) == [r EXCEPT !.e = SetCur(s, r.e)]

\* the result r of a call on the wrapped event, as the wrapper's result
InInner(t, r) == [r EXCEPT !.e = SetInner(t, r.e)]

(* trigger *)

\* SeriesEvent.trigger: base.py 183-184
Series_trigger(s, w) == Raise(s, w)

Inner_trigger(e, w) ==
    IF e.kind = "Series" THEN Series_trigger(e, w) ELSE Leaf_trigger(e, w)

\* TimeConstrained.trigger: constraints.py 43-44
TimeConstrained_trigger(t, w) == InInner(t, Inner_trigger(Inner(t), w))

Ev_trigger(e, w) ==
    CASE e.kind = "TimeConstrained" -> TimeConstrained_trigger(e, w)
      [] e.kind = "Series" -> Series_trigger(e, w)
      [] OTHER -> Leaf_trigger(e, w)

\* Event._trigger: base.py 128-138
Event__trigger(e, w) ==
    IF e.status # "Ready" THEN Ok(e, w)
    ELSE Caught(Ev_trigger([e EXCEPT !.start = w.now], w),
                "Failed with exception (trigger)")

Leaf__trigger(e, w) == Event__trigger(e, w)

\* SeriesEvent._trigger: base.py 186-188
Series__trigger(s, w) ==
    InCur([s EXCEPT !.start = w.now], Leaf__trigger(Cur(s), w))

(* cancel *)

\* SeriesEvent.cancel: base.py 179-181.  current never equals the length,
\* so the current sub-event's cancel is always called; the series' own
\* status is not assigned.
Series_cancel(s, w) == InCur(s, Leaf_cancel(Cur(s), w))

Inner_cancel(e, w) ==
    IF e.kind = "Series" THEN Series_cancel(e, w) ELSE Leaf_cancel(e, w)

\* TimeConstrained.cancel: constraints.py 46-47
TimeConstrained_cancel(t, w) == InInner(t, Inner_cancel(Inner(t), w))

Ev_cancel(e, w) ==
    CASE e.kind = "TimeConstrained" -> TimeConstrained_cancel(e, w)
      [] e.kind = "Series" -> Series_cancel(e, w)
      [] OTHER -> Leaf_cancel(e, w)

\* Event._cancel: base.py 97-106
Event__cancel(e, w) ==
    IF is_done(e.status) THEN Ok(e, w)
    ELSE Caught(Ev_cancel(e, w), "Failed with exception (cancel)")

Leaf__cancel(e, w) == Event__cancel(e, w)
Series__cancel(s, w) == Event__cancel(s, w)

(* update *)

\* a loop that moves the cursor on whatever the current sub-event's status
Series_advance_m(s, w) ==
    IF Len(s.event_list) = s.current THEN Ok(s, w)
    ELSE Series__trigger([s EXCEPT !.current = @ + 1], w)

\* a loop that never moves the cursor
Series_stay_m(s, w) == Ok(s, w)

RECURSIVE Series_advance(_, _)

\* self._event.update(cxn, cache) has returned u;
\* self.status = self._event.status; then the loop: base.py 191-193, 198-199
Series_mirror(s, u) ==
    IF u.exc THEN Raise(SetCur(s, u.e), u.w)
    ELSE Series_advance([SetCur(s, u.e) EXCEPT !.status = u.e.status], u.w)

\* self._trigger(cxn, cache) has returned t; self._event.update: base.py
\* 197-198
Series_triggered(t) ==
    IF t.exc THEN t ELSE Series_mirror(t.e, Leaf_update(Cur(t.e), t.w))

\* The while loop of SeriesEvent.update: base.py 193-199
Series_advance(s, w) ==
    IF s.status # "Finished" THEN Ok(s, w)
    ELSE IF Len(s.event_list) = s.current THEN Ok(s, w)
    ELSE Series_triggered(Series__trigger([s EXCEPT !.current = @ + 1], w))

\* SeriesEvent.update: base.py 190-199
Series_update(s, w) == Series_mirror(s, Leaf_update(Cur(s), w))

Inner_update(e, w) ==
    IF e.kind = "Series" THEN Series_update(e, w) ELSE Leaf_update(e, w)

\* No event class of events/ assigns an attribute msg.
HasMsg(e) == FALSE

\* self.event.cancel(cxn, cache) has returned c;
\* self.status = self.event.status: constraints.py 39-41
TimeConstrained_expired(t, c) ==
    IF c.exc THEN InInner(t, c)
    ELSE Ok([SetInner(t, c.e) EXCEPT !.status = c.e.status], c.w)

\* self.event.update(cxn, cache) has returned u: constraints.py 32-41
TimeConstrained_window(t, u) ==
    IF u.exc THEN InInner(t, u)
    ELSE LET t1 == [SetInner(t, u.e) EXCEPT !.status = u.e.status] IN
      \* self.msg = self.event.msg: AttributeError
      IF ~HasMsg(u.e) THEN Raise(t1, u.w)
      ELSE IF t1.status # "Ready" THEN Ok(t1, u.w)
      \* return (EventStatus.NotReady, None): the value is dropped by
      \* _update, self.status stays Ready
      ELSE IF t1.start_time # NoTime /\ u.w.now < t1.start_time THEN Ok(t1, u.w)
      ELSE IF t1.end_time # NoTime /\ u.w.now > t1.end_time
           THEN TimeConstrained_expired(t1, Inner_cancel(u.e, u.w))
      ELSE Ok(t1, u.w)

\* TimeConstrained.update: constraints.py 28-41
TimeConstrained_update(t, w) ==
    TimeConstrained_window(t, Inner_update(Inner(t), w))

Ev_update(e, w) ==
    CASE e.kind = "TimeConstrained" -> TimeConstrained_update(e, w)
      [] e.kind = "Series" -> Series_update(e, w)
      [] OTHER -> Leaf_update(e, w)

\* self._cancel(cxn, cache) has returned c; self.status = Failed;
\* cache.update_job(self.job_id, log=...): base.py 118-121
Event_capped(c) ==
    IF c.exc THEN c
    ELSE LET f == [c.e EXCEPT !.status = "Failed"] IN
      IF HasJobId(c.e)
      THEN Ok(f, Log(c.w, "Failed to complete within the time limit"))
      ELSE Raise(f, c.w)

\* self.update(cxn, cache) has returned r; the time cap: base.py 113-121
Event_cap(r) ==
    IF r.exc \/ r.e.status # "Running" THEN r
    \* time.time() - None raises TypeError
    ELSE IF r.e.start = NoTime THEN Raise(r.e, r.w)
    ELSE IF (r.w.now - r.e.start) > r.e.max_time
         THEN Event_capped(Event__cancel(r.e, r.w))
    ELSE r

\* _update without the test of lines 109-110
Event__update_m(e, w) ==
    Caught(Event_cap(Ev_update(e, w)), "Failed with exception (update)")

\* Event._update: base.py 108-126
Event__update(e, w) ==
    IF is_done(e.status) THEN Ok(e, w)
    ELSE Caught(Event_cap(Ev_update(e, w)), "Failed with exception (update)")

Leaf__update(e, w) == Event__update(e, w)
Series__update(s, w) == Event__update(s, w)

---------------------------------------------------------------------------
(* _update, _trigger and _cancel of the event's class: SeriesEvent         *)
(* overrides _trigger (base.py 186-188)                                    *)

Ev__update(e, w) == Event__update(e, w)

Ev__trigger(e, w) ==
    IF e.kind = "Series" THEN Series__trigger(e, w) ELSE Event__trigger(e, w)

Ev__cancel(e, w) == Event__cancel(e, w)

---------------------------------------------------------------------------
(* Jobs and the job parser: scheduler/jobs.py *)

Prios == {5, 10}
JdSoon == 10        \* a jd_end that passes with the first tick
JdLate == 200       \* a jd_end the clock never reaches
WinStart == 30      \* a jd_start the clock passes

\* Job: scheduler/jobs.py 34-51.  filter is the string of filter letters.
Job(id, cmd, priority, jd_start, jd_end, filter) ==
    [id |-> id, cmd |-> cmd, priority |-> priority, jd_start |-> jd_start,
     jd_end |-> jd_end, duration |-> Duration, filter |-> filter,
     status |-> "QUEUED", log |-> {}, solve |-> "NONE", frame |-> "",
     wrote |-> "none", over |-> FALSE]

\* the for loop of parse_job: scheduler/jobs.py 116-120
RECURSIVE Filters(_, _, _)
Filters(event, job, filters) ==
    IF filters = <<>> THEN event
    ELSE Filters(Add(Add(event, SetFilter(job.id, Head(filters), job.priority)),
                     Capture(job.id, job.duration, job.priority)),
                 job, Tail(filters))

\* Job.parse_job raises: scheduler/jobs.py 108-130 (unknown command)
parse_raises(job) == job.cmd # "STATIC"

\* Job.parse_job: scheduler/jobs.py 94-130, the STATIC branch
parse_job(job) ==
    TimeConstrained(Filters(Slew(job.id, 1, job.priority), job, job.filter),
                    job.jd_start, job.jd_end)

---------------------------------------------------------------------------
(* The device tree mirrored by the connection worker: State and Device     *)
(* (system.py 23-69) are dicts, modelled as functions whose domain is the  *)
(* set of keys; a switch vector (switch.py 47-50) keeps its elements in    *)
(* definition order, names[k] with value val[k].  An XML element is a      *)
(* record  [tag, device, name, rule, elems] :  an attribute that is absent *)
(* is "", elems are the children as <<name, text>> pairs in document       *)
(* order, and tag "junk" is text that is not well-formed XML.              *)

Devices == {"d1", "d2"}
Rules == {"OneOfMany", "AtMostOne", "AnyOfMany"}
States == {"On", "Off"}

Put(f, k, v) == [x \in DOMAIN f \cup {k} |-> IF x = k THEN v ELSE f[x]]
Del(f, k) == [x \in DOMAIN f \ {k} |-> f[x]]
Range(s) == {s[k] : k \in DOMAIN s}
Keys2(kw) == {kw[k][1] : k \in DOMAIN kw}

Xml(tag, device, name, rule, elems) ==
    [tag |-> tag, device |-> device, name |-> name, rule |-> rule,
     elems |-> elems]

\* what parse_chunk returns: a vector, a SetValue, a DeleteProperty, a
\* Message, None, or the element itself (kind "element")
Parsed(kind, x) ==
    [kind |-> kind, device |-> x.device, name |-> x.name, rule |-> x.rule,
     names |-> [k \in DOMAIN x.elems |-> x.elems[k][1]],
     val |-> [k \in DOMAIN x.elems |-> x.elems[k][2]],
     elems |-> x.elems]

Returned(el) == [exc |-> FALSE, el |-> el]
Raised(el) == [exc |-> TRUE, el |-> el]

\* SwitchVector.from_xml: switch.py 100-111, with
\* GenericVector._parse_xml_element (base.py 105-126); perm and state are
\* present in every definition of the model
SwitchVector_from_xml(x) ==
    IF x.device = "" \/ x.name = "" THEN Raised(Parsed("none", x))
    ELSE IF x.rule \notin Rules THEN Raised(Parsed("none", x))
    ELSE IF \E k \in DOMAIN x.elems : x.elems[k][2] \notin States
         THEN Raised(Parsed("none", x))
    ELSE Returned(Parsed("vector", x))

\* SetValue.from_xml: command.py 25-31
SetValue_from_xml(x) ==
    IF x.device = "" \/ x.name = "" THEN Raised(Parsed("none", x))
    ELSE Returned(Parsed("set", x))

\* DeleteProperty.from_xml: command.py 59-68; name "" is None
DeleteProperty_from_xml(x) ==
    IF x.device = "" THEN Raised(Parsed("none", x))
    ELSE Returned(Parsed("del", x))

\* Message.from_xml: message.py 12-21
Message_from_xml(x) ==
    IF x.device = "" THEN Raised(Parsed("none", x))
    ELSE Returned(Parsed("message", x))

\* parse_chunk: parsing.py 40-78
parse_chunk(x) ==
    IF x.tag = "junk" THEN Returned(Parsed("none", x))
    ELSE IF x.tag = "defSwitchVector" THEN SwitchVector_from_xml(x)
    ELSE IF x.tag = "setSwitchVector" THEN SetValue_from_xml(x)
    ELSE IF x.tag = "delProperty" THEN DeleteProperty_from_xml(x)
    ELSE IF x.tag = "message" THEN Message_from_xml(x)
    ELSE IF x.tag = "newSwitchVector" THEN Returned(Parsed("none", x))
    ELSE Returned(Parsed("element", x))

\* self.elements[name].value = new_state and, for On under the two
\* exclusive rules, every other element Off: switch.py 121-128
SetOne(v, name, s) ==
    [v EXCEPT !.val =
        [k \in DOMAIN v.names |->
            IF v.names[k] = name THEN s
            ELSE IF s = "On" /\ v.rule \in {"OneOfMany", "AtMostOne"}
                 THEN "Off"
                 ELSE v.val[k]]]

\* the loop of SwitchVector.update_from_xml from child i on: switch.py
\* 118-128.  SwitchState[text] and self.elements[name] raise KeyError.
RECURSIVE update_elems(_, _, _)
update_elems(v, elems, i) ==
    IF i > Len(elems) THEN [exc |-> FALSE, v |-> v]
    ELSE IF elems[i][2] \notin States THEN [exc |-> TRUE, v |-> v]
    ELSE IF elems[i][1] \notin Range(v.names) THEN [exc |-> TRUE, v |-> v]
    ELSE update_elems(SetOne(v, elems[i][1], elems[i][2]), elems, i + 1)

\* SwitchVector.update_from_xml: switch.py 113-129
update_from_xml(v, x) == update_elems(v, x.elems, 1)

\* GenericVector.create_xml_command with keyword arguments: base.py
\* 132-151; kw is the dict as <<name, value>> pairs in insertion order
KnownNames(v, kw) == Keys2(kw) \subseteq Range(v.names)

\* the elements the single-element branch adds: switch.py 62-75
Others(v, kw, s) ==
    SelectSeq([k \in DOMAIN v.names |-> <<v.names[k], s>>],
              LAMBDA p : p[1] \notin Keys2(kw))

Command(v, kw) ==
    [exc |-> FALSE, cmd |-> Xml("newSwitchVector", v.device, v.name, "", kw)]

NoCmd == Xml("", "", "", "", <<>>)
Rejected == [exc |-> TRUE, cmd |-> NoCmd]

\* the loop that writes the oneSwitch children: switch.py 83-91
Built(v, kw) ==
    IF \E k \in DOMAIN kw : kw[k][2] \notin States THEN Rejected
    ELSE Command(v, kw)

\* the command carries the elements asked for and no other
create_xml_command_m(v, kw) ==
    IF ~KnownNames(v, kw) THEN Rejected ELSE Built(v, kw)

\* SwitchVector.create_xml_command: switch.py 52-91
create_xml_command(v, kw) ==
    IF ~KnownNames(v, kw) THEN Rejected
    ELSE IF Len(kw) = 1 /\ v.rule \in {"OneOfMany", "AtMostOne"}
    THEN IF kw[1][2] = "On" THEN Built(v, kw \o Others(v, kw, "Off"))
         ELSE IF v.rule = "OneOfMany" /\ Len(v.names) = 2
              THEN Built(v, kw \o Others(v, kw, "On"))
         ELSE IF v.rule = "AtMostOne" THEN Built(v, kw)
         ELSE Rejected
    ELSE Built(v, kw)

\* the value of element name
ValueOf(v, name) == v.val[CHOOSE k \in DOMAIN v.names : v.names[k] = name]

\* set, whatever the values
is_set_m(v, kw) == [exc |-> FALSE, set |-> TRUE]

\* SwitchVector.is_set: switch.py 93-98 (raises for an unknown name)
is_set(v, kw) ==
    IF ~KnownNames(v, kw) THEN [exc |-> TRUE, set |-> FALSE]
    ELSE [exc |-> FALSE,
          set |-> \A k \in DOMAIN kw : ValueOf(v, kw[k][1]) = kw[k][2]]

\* a delete of one property takes the device with it, and a set defines
Apply_m(st, el) ==
    IF el.kind = "del" THEN [exc |-> FALSE, state |-> Del(st, el.device)]
    ELSE IF el.kind \in {"vector", "set"} THEN
        [exc |-> FALSE, state |-> Put(st, el.device, Put(<<>>, el.name, el))]
    ELSE [exc |-> FALSE, state |-> st]

\* one element of parsed_elements applied to state: system.py 270-298
Apply(st, el) ==
    IF el.kind = "del" THEN
        IF el.name = "" /\ el.device \in DOMAIN st
        THEN [exc |-> FALSE, state |-> Del(st, el.device)]
        ELSE IF el.device \in DOMAIN st /\ el.name \in DOMAIN st[el.device]
        THEN [exc |-> FALSE,
              state |-> [st EXCEPT ![el.device] = Del(@, el.name)]]
        ELSE [exc |-> FALSE, state |-> st]
    ELSE IF el.kind = "vector" THEN
        IF el.device \notin DOMAIN st
        THEN [exc |-> FALSE,
              state |-> Put(st, el.device, Put(<<>>, el.name, el))]
        ELSE [exc |-> FALSE,
              state |-> [st EXCEPT ![el.device] = Put(@, el.name, el)]]
    ELSE IF el.kind = "set" THEN
        IF el.device \in DOMAIN st /\ el.name \in DOMAIN st[el.device]
        THEN [exc |-> update_from_xml(st[el.device][el.name], el).exc,
              state |-> [st EXCEPT ![el.device][el.name] =
                            update_from_xml(@, el).v]]
        ELSE [exc |-> FALSE, state |-> st]
    ELSE [exc |-> FALSE, state |-> st]

\* the try/except loop over new_elements: system.py 258-267
parsed_elements(batch) ==
    [k \in DOMAIN SelectSeq(batch, LAMBDA x : ~parse_chunk(x).exc) |->
        parse_chunk(SelectSeq(batch, LAMBDA x : ~parse_chunk(x).exc)[k]).el]

\* the loop over parsed_elements from element i on: system.py 269-298.
\* Nothing catches an exception here: it ends _process_tasks.
RECURSIVE ApplyAll(_, _, _)
ApplyAll(st, els, i) ==
    IF i > Len(els) THEN [exc |-> FALSE, state |-> st, n |-> i - 1]
    ELSE IF Apply(st, els[i]).exc
         THEN [exc |-> TRUE, state |-> Apply(st, els[i]).state, n |-> i - 1]
    ELSE ApplyAll(Apply(st, els[i]).state, els, i + 1)
---------------------------------------------------------------------------
(* Connection: system.py 72-338.  The worker process runs _process_tasks;  *)
(* the client calls state, set_value and close.  A snapshot is the object  *)
(* a get-state task puts on the response queue: copy.deepcopy gives an     *)
(* object of its own (live = FALSE, content val); an object that shares    *)
(* the worker's State would have live = TRUE and the worker's content.     *)

NoSnap == [stamp |-> 0, live |-> FALSE, val |-> <<>>]

\* not a copy: the State object itself is put on the queue
deepcopy_m(st, n) == [stamp |-> n, live |-> TRUE, val |-> st]

\* copy.deepcopy(state): system.py 217; n numbers the snapshots
deepcopy(st, n) == [stamp |-> n, live |-> FALSE, val |-> st]

\* what a holder of snapshot s reads
Content(s) == IF s.live THEN state ELSE s.val

Task(t, cmd) == [t |-> t, cmd |-> cmd]

\* GetProperties().to_xml(): command.py 15-18
GetProperties == Xml("getProperties", "", "", "", <<>>)

\* the remote's answer to a newSwitchVector it accepts
EchoOf(cmd) == Xml("setSwitchVector", cmd.device, cmd.name, "", cmd.elems)

ABC == <<"A", "B", "C">>
Vals(names, on) ==
    [k \in DOMAIN names |->
        <<names[k], IF names[k] \in on THEN "On" ELSE "Off">>]

Defs ==
    {Xml("defSwitchVector", "d1", "p", r, Vals(ABC, on)) :
        r \in Rules, on \in {{"A"}, {}, {"A", "B"}}}
    \cup {Xml("defSwitchVector", "d1", "p", "OneOfMany", Vals(<<"A", "B">>, {"A"}))}
    \cup {Xml("defSwitchVector", "d2", "p", "OneOfMany", Vals(ABC, {"A"}))}

Sets ==
    {Xml("setSwitchVector", "d1", "p", "", e) :
        e \in {<<<<"A", "On">>>>, <<<<"A", "Off">>>>, <<<<"C", "Off">>>>,
               <<<<"A", "On">>, <<"B", "On">>>>,
               <<<<"Z", "On">>>>, <<<<"A", "Dim">>>>}}
    \cup {Xml("setSwitchVector", "d2", "p", "", <<<<"A", "On">>>>)}

Dels ==
    {Xml("delProperty", "d1", "", "", <<>>),
     Xml("delProperty", "d1", "p", "", <<>>),
     Xml("delProperty", "d2", "", "", <<>>)}

\* elements that parse_chunk drops, raises on, or hands on unrecognised
Odd ==
    {Xml("junk", "", "", "", <<>>),
     Xml("defSwitchVector", "", "p", "OneOfMany", Vals(ABC, {"A"})),
     Xml("defSwitchVector", "d1", "p", "", Vals(ABC, {"A"})),
     Xml("setSwitchVector", "d1", "", "", <<<<"A", "On">>>>),
     Xml("delProperty", "", "", "", <<>>),
     Xml("message", "d1", "", "", <<>>),
     Xml("defLightVector", "d1", "p", "", <<>>),
     Xml("newSwitchVector", "d1", "p", "", <<<<"A", "On">>>>)}

\* what one recv can deliver
Batches ==
    {<<x>> : x \in Defs \cup Sets \cup Dels \cup Odd}
    \cup {<<x, Xml("defSwitchVector", "d2", "p", "OneOfMany", Vals(ABC, {"A"}))>> :
              x \in Odd \cup Sets}

\* what one recv delivers while a client is at work
Few ==
    {<<Xml("defSwitchVector", "d1", "p", "OneOfMany", Vals(ABC, {"A"}))>>,
     <<Xml("defSwitchVector", "d1", "p", "AtMostOne", Vals(ABC, {}))>>,
     <<Xml("defSwitchVector", "d1", "p", "AnyOfMany", Vals(ABC, {"A"}))>>,
     <<Xml("setSwitchVector", "d1", "p", "", <<<<"Z", "On">>>>)>>,
     <<Xml("delProperty", "d1", "", "", <<>>)>>}

\* the devices that have received a definition and no whole-device
\* delete after it, from the elements applied
RECURSIVE Defined(_, _, _)
Defined(devs, els, n) ==
    IF n = 0 THEN devs
    ELSE IF els[n].kind = "vector" THEN Defined(devs, els, n - 1) \cup {els[n].device}
    ELSE IF els[n].kind = "del" /\ els[n].name = ""
         THEN Defined(devs, els, n - 1) \ {els[n].device}
    ELSE Defined(devs, els, n - 1)

Trace0 ==
    [devs |-> {}, nsnap |-> 0, echoed |-> 1, echo |-> FALSE,
     skipped |-> 0, exc |-> FALSE, applied |-> "", feeds |-> 0]

Client0 ==
    [pc |-> "idle", op |-> "none", ret |-> "top", kw |-> <<>>,
     block |-> FALSE, t |-> 0, g |-> 0, snap |-> NoSnap, seen |-> <<>>,
     result |-> "none", newest |-> 0, dead0 |-> FALSE,
     calls |-> 0, polls |-> 0, enq |-> <<>>, vec |-> NoCmd, put |-> FALSE,
     dropped |-> 0, n0 |-> 0]

InitCxn0 ==
    /\ state = <<>>
    /\ first_time = TRUE
    /\ alive = TRUE
    /\ task_queue = <<>>
    /\ response_queue = <<>>
    /\ sent = <<GetProperties>>
    /\ client = Client0
    /\ clock = 0
    /\ trace = Trace0
    /\ partial = <<>>
    /\ chunks = <<>>
    /\ recvs = 0
    /\ new_elements = <<>>
    /\ rem = <<>>
    /\ rpc = "select"
    /\ sched = [task_queue |-> <<>>, event_list |-> <<>>, running |-> 0,
                clears |-> 0]
    /\ events = <<>>
    /\ marks = [dropped |-> {}, missed |-> {}, late |-> {}]


---------------------------------------------------------------------------
(* SpecEv: one event, its entry points called in any order *)

Leaves ==
    {Slew(1, 1, 5)}
    \cup {SetFilter(1, f, 5) : f \in {"R", "X"}}
    \cup {Capture(1, Duration, 5)}
    \cup {Sync_init(1, 5)}

RECURSIVE SeriesOfLen(_)
SeriesOfLen(n) ==
    IF n = 1 THEN Leaves
    ELSE {Add(a, b) : a \in SeriesOfLen(n - 1), b \in Leaves}

Wrapped ==
    {parse_job(Job(1, "STATIC", 5, st, en, f)) :
        st \in {NoTime, WinStart}, en \in {NoTime, JdSoon},
        f \in {<<>>, <<"R">>}}

EvInits == UNION {SeriesOfLen(n) : n \in 1..MaxSubs} \cup Wrapped

Jobs0 == [i \in 1..MaxJobs |-> Job(i, "NONE", 5, NoTime, JdLate, <<>>)]
Sweep0 == [running |-> 0, trigger |-> 0, triggered |-> {}, active |-> {},
           ready |-> {}, late |-> {}, finished |-> {}, failed |-> {},
           unparsed |-> {}, parsed |-> {}, stale |-> {}, gone |-> {},
           refused |-> {}, kept |-> TRUE, refetched |-> {}]

Subs(e) == IF e.kind = "Series" THEN e.event_list ELSE <<>>

NoCall == [op |-> "env", exc |-> FALSE, done |-> FALSE]

InitEv ==
    /\ now = 0
    /\ hw = Hw0
    /\ ev \in EvInits
    /\ elog = {}
    /\ last = NoCall
    /\ hist = {}
    /\ jobs = Jobs0
    /\ event_map = <<>>
    /\ pc = "idle"
    /\ sweep = Sweep0
    /\ window = TRUE
    /\ InitCxn0

NoSched == UNCHANGED <<jobs, event_map, pc, sweep, window>>

\* cxn and cache as a call on ev sees them; the job of ev is job 1
EvWorld(in) == JobWorld([jobs EXCEPT ![1].log = elog], 1, hw, now, in)

\* the client's call op on ev, with this call's environment
Call(op, r) ==
    /\ ev' = r.e
    /\ elog' = r.w.log
    /\ hw' = r.w.hw
    /\ last' = [op |-> op, exc |-> r.exc, done |-> is_done(ev.status)]
    /\ hist' = hist \cup {i \in 1..Len(Subs(r.e)) : Subs(r.e)[i].status = "Finished"}
    /\ UNCHANGED now
    /\ NoSched
    /\ NoCxn

Do__trigger ==
    \E in \in Inputs :
        Call("_trigger", Ev__trigger(ev, EvWorld(in)))

Do__update ==
    \E in \in Inputs :
        Call("_update", Ev__update(ev, EvWorld(in)))

Do__cancel ==
    \E in \in Inputs :
        Call("_cancel", Ev__cancel(ev, EvWorld(in)))

\* cancel itself, as the callers that do not go through _cancel reach it:
\* TimeConstrained.update on a ready event (constraints.py 39), and a
\* wrapper or series passing its own cancel on (constraints.py 47,
\* base.py 181)
Do_cancel ==
    /\ ~is_done(ev.status)
    /\ \E in \in Inputs :
        Call("cancel", Ev_cancel(ev, EvWorld(in)))

\* trigger itself, as a wrapper that is triggered reaches it on the event
\* it wraps, ready like itself (constraints.py 44): what trigger raises
\* goes to the caller
Do_trigger ==
    /\ ev.status = "Ready"
    /\ \E in \in Inputs : Call("trigger", Ev_trigger(ev, EvWorld(in)))

\* e is, or holds, an event of class kind
HasKind(e, kind) ==
    \/ e.kind = kind
    \/ \E k \in DOMAIN e.event_list :
          \/ e.event_list[k].kind = kind
          \/ \E j \in DOMAIN e.event_list[k].event_list :
                e.event_list[k].event_list[j].kind = kind

\* the solver writes its outcome to the job's record
Solver ==
    /\ HasKind(ev, "_Sync")
    /\ \E v \in JobSolve \ {jobs[1].solve} :
          jobs' = [jobs EXCEPT ![1].solve = v]
    /\ last' = NoCall
    /\ UNCHANGED <<now, hw, ev, elog, hist, event_map, pc, sweep, window>>
    /\ NoCxn

\* the camera delivers a frame: the CCD1 blob has a new timestamp
NewFrame ==
    /\ HasKind(ev, "Capture")
    /\ hw.stamp = 0
    /\ hw' = [hw EXCEPT !.stamp = 1]
    /\ last' = NoCall
    /\ UNCHANGED <<now, ev, elog, hist>>
    /\ NoSched
    /\ NoCxn

Tick ==
    /\ now + TickStep <= MaxNow
    /\ now' = now + TickStep
    /\ last' = NoCall
    /\ UNCHANGED <<hw, ev, elog, hist>>
    /\ NoSched
    /\ NoCxn

\* the mount reaches the commanded coordinates
MountMove ==
    /\ hw.pointing # hw.goal
    /\ hw' = [hw EXCEPT !.pointing = hw.goal]
    /\ last' = NoCall
    /\ UNCHANGED <<now, ev, elog, hist>>
    /\ NoSched
    /\ NoCxn

\* the filter wheel is turned (by hand or another client)
WheelTurn ==
    /\ \E k \in Slots \ {hw.slot} : hw' = [hw EXCEPT !.slot = k]
    /\ last' = NoCall
    /\ UNCHANGED <<now, ev, elog, hist>>
    /\ NoSched
    /\ NoCxn

NextEv ==
    \/ Do__trigger
    \/ Do__update
    \/ Do__cancel
    \/ Do_cancel
    \/ Do_trigger
    \/ Solver
    \/ NewFrame
    \/ Tick
    \/ MountMove
    \/ WheelTurn

SpecEv == InitEv /\ [][NextEv]_vars

\* no event, no catalog: the values the event variables keep under SpecCxn
EventsIdle ==
    /\ now = 0
    /\ hw = Hw0
    /\ ev = Slew(1, 1, 5)
    /\ elog = {}
    /\ last = NoCall
    /\ hist = {}
    /\ jobs = Jobs0
    /\ event_map = <<>>
    /\ pc = "idle"
    /\ sweep = Sweep0
    /\ window = TRUE

---------------------------------------------------------------------------
(* run_schedule: scheduler/scheduler.py 46-120 *)

Ids == 1..MaxJobs

\* the keys of event_map; the map is kept as the sequence of its items
Keys(m) == {m[k].id : k \in 1..Len(m)}
IndexOf(m, id) == CHOOSE k \in 1..Len(m) : m[k].id = id

\* PBCache.get_jobs: scheduler/cache.py 26-30.  The default filter keeps the
\* QUEUED records, the default sort is -priority.
RECURSIVE ByPriority(_, _)
ByPriority(js, ids) ==
    IF ids = {} THEN <<>>
    ELSE LET i == CHOOSE i \in ids : \A j \in ids :
                      \/ js[i].priority > js[j].priority
                      \/ js[i].priority = js[j].priority /\ i <= j
         IN  <<js[i]>> \o ByPriority(js, ids \ {i})

\* the records of the catalog: a slot is empty ("NONE") until a job is
\* submitted, and "GONE" once its record has been deleted
InCatalog(js) == {i \in Ids : js[i].cmd \notin {"NONE", "GONE"}}

get_jobs(js) ==
    ByPriority(js, {i \in InCatalog(js) : js[i].status = "QUEUED"})

\* PBCache.get_job: scheduler/cache.py 38-40.  get_one has no record to
\* return for a deleted job, and Job.from_record (scheduler/jobs.py 53-61)
\* reads the fields of what it is given: the call raises, it never
\* returns None (events/sync.py 30-32 catches what it raises).
get_job_raises(js, id) == js[id].cmd = "GONE"

\* PBCache.update_job with a status: scheduler/cache.py 53-69.  A line is
\* joined to the log only when log is given (54-58); wrote records whether
\* the last write of a status came with one, over whether a status was
\* written over a different one that was FINISHED or FAILED.
update_job(js, id, status, lines) ==
    [js EXCEPT ![id].status = status, ![id].log = @ \cup lines,
               ![id].wrote = IF lines = {} THEN "silent" ELSE "logged",
               ![id].over = \/ @
                            \/ /\ js[id].status \in {"FINISHED", "FAILED"}
                               /\ js[id].status # status]

\* the event run_schedule stores for a job (scheduler.py 67, 76)
Stored(job, win) == IF win THEN parse_job(job) ELSE Inner(parse_job(job))

\* the intake loop: scheduler/scheduler.py 54-76
RECURSIVE Intake(_, _, _, _)

\* an intake that ends at the first job that fails to parse
RECURSIVE Intake_m(_, _, _, _)
Intake_m(list, js, m, win) ==
    IF list = <<>> THEN [jobs |-> js, map |-> m]
    ELSE LET job == Head(list) IN
      IF job.id \in Keys(m) THEN Intake_m(Tail(list), js, m, win)
      ELSE IF parse_raises(job)
           THEN [jobs |-> update_job(js, job.id, "FAILED",
                                     {"Failed to parse job"}),
                 map |-> m]
      ELSE Intake_m(Tail(list), js,
                    Append(m, [id |-> job.id, e |-> Stored(job, win)]), win)

\* an intake without the test of lines 55-56: the event parsed anew takes
\* the place of the one in the map
RECURSIVE Intake_again_m(_, _, _, _)
Intake_again_m(list, js, m, win) ==
    IF list = <<>> THEN [jobs |-> js, map |-> m]
    ELSE LET job == Head(list) IN
      IF parse_raises(job)
      THEN Intake_again_m(Tail(list),
                          update_job(js, job.id, "FAILED",
                                     {"Failed to parse job"}),
                          m, win)
      ELSE IF job.id \in Keys(m)
      THEN Intake_again_m(Tail(list), js,
                          [m EXCEPT ![IndexOf(m, job.id)].e = Stored(job, win)],
                          win)
      ELSE Intake_again_m(Tail(list), js,
                          Append(m, [id |-> job.id, e |-> Stored(job, win)]),
                          win)

Intake(list, js, m, win) ==
    IF list = <<>> THEN [jobs |-> js, map |-> m]
    ELSE LET job == Head(list) IN
      IF job.id \in Keys(m) THEN Intake(Tail(list), js, m, win)
      ELSE IF job.status \in {"FINISHED", "FAILED"}
           THEN Intake(Tail(list), js, m, win)
      ELSE IF job.status = "RUNNING"
           THEN Intake(Tail(list),
                       update_job(js, job.id, "FAILED",
                                  {"Job was running, but no event found."}),
                       m, win)
      ELSE IF parse_raises(job)
           THEN Intake(Tail(list),
                       update_job(js, job.id, "FAILED", {"Failed to parse job"}),
                       m, win)
      ELSE Intake(Tail(list), js,
                  Append(m, [id |-> job.id, e |-> Stored(job, win)]), win)

\* Event.__lt__: base.py 140-141
Lt(a, b) == a.priority < b.priority

\* sorted(event_map.items(), key=lambda x: x[1]): scheduler/scheduler.py 77.
\* sorted is stable and ascending in __lt__.
RECURSIVE Insert(_, _)
Insert(x, s) ==
    IF s = <<>> THEN <<x>>
    ELSE IF Lt(x.e, Head(s).e) THEN <<x>> \o s
    ELSE <<Head(s)>> \o Insert(x, Tail(s))

RECURSIVE SortEvents(_)
SortEvents(m) ==
    IF m = <<>> THEN <<>>
    ELSE Insert(m[Len(m)], SortEvents(SubSeq(m, 1, Len(m) - 1)))

\* scheduler/scheduler.py 91
SeesRunning_m(status) == FALSE
SeesRunning(status) == status = "Running"

\* scheduler/scheduler.py 111
MayTrigger_m(running, trigger) == trigger # 0
MayTrigger(running, trigger) == running = 0 /\ trigger # 0

\* the state of the loop body before the sweep: scheduler/scheduler.py 79-81
Acc0(js, h, m) ==
    [jobs |-> js, hw |-> h, map |-> m, running |-> 0, trigger |-> 0,
     delete |-> {}, active |-> {}, ready |-> {}, triggered |-> {},
     finished |-> {}, failed |-> {}, crashed |-> FALSE,
     job_id |-> 0, up |-> TRUE, refused |-> {}]

RECURSIVE Sweep(_, _, _, _)

\* update_job raises what the write to the catalog raised (cache.py 65-69);
\* nothing in run_schedule catches it
Refused(acc, id) == [acc EXCEPT !.crashed = TRUE, !.refused = @ \cup {id}]

\* the if/elif chain of the sweep: scheduler/scheduler.py 91-107.  seen is
\* the loop's state after lines 83-85, up whether update_job succeeds.
Noted(seen, id, status) ==
    LET run == [seen EXCEPT
                  !.running = IF SeesRunning(status) THEN id ELSE @,
                  !.active = IF is_active(status) THEN @ \cup {id} ELSE @,
                  !.ready = IF status = "Ready" THEN @ \cup {id} ELSE @]
        done == [run EXCEPT !.delete = @ \cup {id}]
    IN  CASE status = "Finished" ->
               IF ~seen.up THEN Refused(done, id)
               ELSE [done EXCEPT
                       !.jobs = update_job(@, id, "FINISHED", {"Finished"}),
                       !.finished = @ \cup {id}]
          [] status = "Failed" ->
               IF ~seen.up THEN Refused(done, id)
               ELSE [done EXCEPT
                       !.jobs = update_job(@, id, "FAILED", {"Failed"}),
                       !.failed = @ \cup {id}]
          [] is_active(status) ->
               IF seen.jobs[id].status = "RUNNING" THEN run
               ELSE IF ~seen.up THEN Refused(run, id)
               ELSE [run EXCEPT !.jobs = update_job(@, id, "RUNNING", {})]
          [] status = "NotReady" -> run
          [] status = "Ready" /\ seen.trigger = 0 ->
               [run EXCEPT !.trigger = id]
          [] OTHER -> run

\* the sweep goes on with the next item unless an exception has left it
Onward(k, acc, t, in) == IF acc.crashed THEN acc ELSE Sweep(k + 1, acc, t, in)

\* the body of the sweep's loop once event._update has returned r:
\* scheduler/scheduler.py 84-107.  cache.get_job (cache.py 38-40) raises
\* for a job that has left the catalog.
Swept(k, acc, t, in, r) ==
    LET id == acc.map[k].id
        js == [acc.jobs EXCEPT ![id].log = r.w.log]
        seen == [acc EXCEPT !.jobs = js, !.hw = r.w.hw, !.map[k].e = r.e,
                            !.job_id = id]
    IN  IF r.exc \/ get_job_raises(acc.jobs, id)
        THEN [seen EXCEPT !.crashed = TRUE]
        ELSE Onward(k, Noted(seen, id, r.e.status), t, in)

\* the sweep over event_map, from its k-th item: scheduler/scheduler.py
\* 82-107
Sweep(k, acc, t, in) ==
    IF k > Len(acc.map) THEN acc
    ELSE Swept(k, acc, t, in,
               Ev__update(acc.map[k].e,
                          JobWorld(acc.jobs, acc.map[k].id, acc.hw, t, in)))

\* a loop that deletes nothing
Delete_m(m, ids) == m

\* for job_id in delete: del event_map[job_id]: scheduler/scheduler.py 108-109
RECURSIVE Delete(_, _)
Delete(m, ids) ==
    IF m = <<>> THEN <<>>
    ELSE IF Head(m).id \in ids THEN Delete(Tail(m), ids)
    ELSE <<Head(m)>> \o Delete(Tail(m), ids)

\* trigger._trigger(cxn, cache) has returned r: scheduler/scheduler.py 120
Triggered(acc, id, k, r) ==
    [acc EXCEPT !.jobs[id].log = r.w.log, !.hw = r.w.hw, !.map[k].e = r.e,
                !.triggered = {id}, !.crashed = r.exc]

\* a trigger step that writes RUNNING to the job the sweep's loop variable
\* job_id was left on, not to the job it triggers
Trigger_m(acc, id, k, t, in) ==
    Triggered([acc EXCEPT !.jobs = update_job(@, acc.job_id, "RUNNING", {})],
              id, k,
              Ev__trigger(acc.map[k].e,
                          JobWorld(acc.jobs, id, acc.hw, t, in)))

\* cache.update_job(job.id, status=JobStatus.RUNNING); trigger._trigger:
\* scheduler/scheduler.py 118-120
Trigger(acc, id, k, t, in) ==
    Triggered([acc EXCEPT !.jobs = update_job(@, id, "RUNNING", {})], id, k,
              Ev__trigger(acc.map[k].e,
                          JobWorld(acc.jobs, id, acc.hw, t, in)))

\* the trigger step: scheduler/scheduler.py 111-120
Dispatch(acc, t, in) ==
    IF ~MayTrigger(acc.running, acc.trigger) THEN acc
    ELSE Trigger(acc, acc.trigger, IndexOf(acc.map, acc.trigger), t, in)

---------------------------------------------------------------------------
(* SpecSched: the loop of run_schedule and its environment *)

\* the jobs a client submits: STATIC exposures, and a command parse_job
\* does not know
JobKinds ==
    {Job(0, "STATIC", p, 0, JdLate, <<>>) : p \in Prios}
    \cup {Job(0, "STATIC", 5, 0, JdSoon, <<"R">>)}
    \cup {Job(0, "HOME", 5, 0, JdLate, <<>>)}
    \cup {[Job(0, "STATIC", 5, 0, JdLate, <<>>) EXCEPT !.status = "RUNNING"]}

InitSched ==
    /\ now = 0
    /\ hw = Hw0
    /\ ev = Slew(1, 1, 5)
    /\ elog = {}
    /\ last = NoCall
    /\ hist = {}
    /\ jobs = Jobs0
    /\ event_map = <<>>
    /\ pc = "idle"
    /\ sweep = Sweep0
    /\ window \in BOOLEAN
    /\ InitCxn0

NoEv == UNCHANGED <<ev, elog, last, hist>>

\* a client adds a job to the catalog (PBCache.submit_job, cache.py 42-51)
Submit ==
    /\ \E i \in Ids, kind \in JobKinds :
        /\ jobs[i].cmd = "NONE"
        /\ \A j \in 1..(i - 1) : jobs[j].cmd # "NONE"
        /\ jobs' = [jobs EXCEPT ![i] = [kind EXCEPT !.id = i]]
    /\ UNCHANGED <<now, hw, event_map, pc, sweep, window>>
    /\ NoEv
    /\ NoCxn

\* the jobs whose jd_end has passed while they wait (QUEUED) for a trigger
Late(js, t) ==
    {i \in Ids : js[i].cmd = "STATIC" /\ js[i].status = "QUEUED"
                  /\ js[i].jd_end < t}

IsPrefixOf(s, t) == Len(s) <= Len(t) /\ s = SubSeq(t, 1, Len(s))

\* the queued jobs that have no event yet
New(js, m) ==
    {i \in InCatalog(js) : js[i].status = "QUEUED" /\ i \notin Keys(m)}

\* the jobs left RUNNING in the catalog that have no event
Stale(js, m) ==
    {i \in InCatalog(js) : js[i].status = "RUNNING" /\ i \notin Keys(m)}

\* the jobs get_jobs returns whose event is in the map, and is no longer
\* as parse_job built it
Refetched(js, m) ==
    {i \in Keys(m) :
        /\ i \in InCatalog(js)
        /\ js[i].status = "QUEUED"
        /\ m[IndexOf(m, i)].e # Stored(js[i], window)}

\* a client deletes a job's record from the catalog
Remove ==
    /\ \E i \in InCatalog(jobs) : jobs' = [jobs EXCEPT ![i].cmd = "GONE"]
    /\ UNCHANGED <<now, hw, event_map, pc, sweep, window>>
    /\ NoEv
    /\ NoCxn

\* one pass of the while loop: scheduler/scheduler.py 50-120
Iterate ==
    /\ pc = "idle"
    /\ \E in \in Inputs, up \in BOOLEAN :
        \E i0 \in {Intake(get_jobs(jobs), jobs, event_map, window)} :
        \E s \in {Sweep(1, [Acc0(i0.jobs, hw, SortEvents(i0.map))
                               EXCEPT !.up = up], now, in)} :
        \E d \in {IF s.crashed THEN s
                   ELSE Dispatch([s EXCEPT !.map = Delete(s.map, s.delete)],
                                 now, in)} :
            /\ jobs' = d.jobs
            /\ hw' = d.hw
            /\ event_map' = d.map
            /\ pc' = IF d.crashed THEN "crashed" ELSE "idle"
            /\ sweep' = [running |-> d.running, trigger |-> d.trigger,
                         triggered |-> d.triggered, active |-> d.active,
                         ready |-> d.ready, late |-> Late(jobs, now),
                         finished |-> d.finished, failed |-> d.failed,
                         unparsed |-> {i \in New(jobs, event_map) :
                                          parse_raises(jobs[i])},
                         parsed |-> {i \in New(jobs, event_map) :
                                        ~parse_raises(jobs[i])},
                         stale |-> Stale(jobs, event_map),
                         gone |-> {i \in Keys(event_map) :
                                      get_job_raises(jobs, i)},
                         refused |-> d.refused,
                         kept |-> IsPrefixOf(event_map, i0.map),
                         refetched |-> Refetched(jobs, event_map)]
    /\ UNCHANGED <<now, window>>
    /\ NoEv
    /\ NoCxn

NextSched ==
    \/ Submit
    \/ Remove
    \/ Iterate
    \/ Tick
    \/ MountMove
    \/ WheelTurn

SpecSched == InitSched /\ [][NextSched]_vars

---------------------------------------------------------------------------
(* Properties of run_schedule, checked under SpecSched *)

Active(m) == {k \in 1..Len(m) : is_active(m[k].e.status)}

C4_LateJobExpires ==
    \A i \in sweep.late :
        /\ i \notin sweep.triggered
        /\ jobs[i].status = "EXPIRED"
        /\ i \notin Keys(event_map)

---------------------------------------------------------------------------
(* Properties of the event classes, checked under SpecEv *)

IsSeries == ev.kind = "Series"
SubIdx == 1..Len(Subs(ev))

\* every event of the tree under test: the event, a wrapper's inner event,
\* and the sub-events of a series
Tree ==
    {ev}
    \cup {Subs(ev)[i] : i \in SubIdx}
    \cup (IF ev.kind = "TimeConstrained"
          THEN {Inner(ev)} \cup {Subs(Inner(ev))[i] : i \in 1..Len(Subs(Inner(ev)))}
          ELSE {})

\* the log lines an event writes when it fails
FailureTexts ==
    {"Selected filter not in the available filter list", "Canceled",
     "Exposure failed to upload file", "Slew cancelled, motion aborted",
     "Failed with exception (trigger)", "Failed with exception (update)",
     "Failed with exception (cancel)",
     "Failed to complete within the time limit"}

\* C5: if a sub-event of a series reaches failed, the series reaches failed
\* (at its next update), no later sub-event is ever triggered, and the job
\* log contains the failing sub-event's failure text.
C5_SubFailureFailsSeries ==
    IsSeries =>
        \A i \in SubIdx :
            Subs(ev)[i].status = "Failed" =>
                /\ last.op = "_update" => ev.status = "Failed"
                /\ \A j \in SubIdx : j > i => Subs(ev)[j].trig = 0
                /\ elog \cap FailureTexts # {}

\* C6: a series triggers sub-event i+1 only after sub-event i has reached
\* finished: no two sub-events are running at the same time, and whenever
\* the series is finished every sub-event was finished before, in index
\* order.
C6_SubEventsInOrder ==
    IsSeries =>
        /\ Cardinality({i \in SubIdx : Subs(ev)[i].status = "Running"}) <= 1
        /\ \A j \in SubIdx :
              (j > 1 /\ Subs(ev)[j].trig > 0) => (j - 1) \in hist
        /\ \A j \in hist : j > 1 => (j - 1) \in hist
        /\ ev.status = "Finished" => hist = SubIdx

\* a series of two or more sub-events, one of them a slew, has finished
C6_SeriesFinished ==
    /\ IsSeries
    /\ Len(Subs(ev)) >= 2
    /\ ev.status = "Finished"
    /\ \E i \in SubIdx : Subs(ev)[i].kind = "Slew"

\* C7: in every reachable state a series is running iff its current
\* sub-event is running, and finished iff all its sub-events are finished.
C7_SeriesMirrorsSubEvents ==
    IsSeries =>
        /\ ev.status = "Running" <=> Cur(ev).status = "Running"
        /\ ev.status = "Finished"
              <=> \A i \in SubIdx : Subs(ev)[i].status = "Finished"

\* C8: no event (top-level, wrapped, or sub-event of a series) stays running
\* past its own max_time plus one sweep: once now - started_at exceeds
\* max_time, the next update cancels it and sets it to failed, with "Failed
\* to complete within the time limit" in the job log.
C8_RunningWithinMaxTime ==
    last.op = "_update" =>
        \A e \in Tree :
            (e.status = "Running" /\ e.start # NoTime)
                => (now - e.start) <= e.max_time

\* C9: cancel on any event that is not already finished or failed (a leaf,
\* a series, or a time-window wrapper) leaves the event with status failed.
C9_CancelEndsFailed ==
    (last.op \in {"cancel", "_cancel"} /\ ~last.done) => ev.status = "Failed"

\* C10: a time-window wrapper whose inner event is ready while now < start
\* has status not-ready after update (and so is no trigger candidate).
C10_NotReadyBeforeStart ==
    ( /\ ev.kind = "TimeConstrained"
      /\ last.op = "_update"
      /\ ~last.done
      /\ Inner(ev).status = "Ready"
      /\ ev.start_time # NoTime
      /\ now < ev.start_time )
        => ev.status = "NotReady"

\* C11: a time-window wrapper whose inner event is ready while now > end
\* has, after update, cancelled the inner event and taken status
\* canceling; the wrapper is no longer ready.
C11_ReadyAfterEndCancels ==
    [][ ( /\ ev.kind = "TimeConstrained"
          /\ ~is_done(ev.status)
          /\ IsLeaf(Inner(ev))
          /\ Inner(ev).status = "Ready"
          /\ ev.end_time # NoTime
          /\ now > ev.end_time
          /\ last'.op = "_update" )
            => (ev'.status = "Canceling" /\ Inner(ev').status # "Ready") ]_vars

---------------------------------------------------------------------------
(* SpecCxn: the worker loop, the client calls and the remote *)

\* the newest item first
get_nowait_m(q) == [item |-> q[Len(q)], rest |-> SubSeq(q, 1, Len(q) - 1)]

\* queue.get_nowait on a queue that is not empty: the oldest item
get_nowait(q) == [item |-> Head(q), rest |-> Tail(q)]

\* get_nowait finds an item (it raises Empty otherwise)
More(q) == q # <<>>

\* the first snapshot is returned, no look for a newer one
Drained_m(q) == TRUE

\* the drain loop of Connection.state ends: get_nowait raises Empty,
\* system.py 312-315
Drained(q) == q = <<>>

\* the task this pass takes, if any: system.py 212-216
HasTask == ~first_time /\ More(task_queue)
Doing(t) == HasTask /\ get_nowait(task_queue).item.t = t

\* the kind of the last element applied, "" when none was
LastKind(els, n) == IF n = 0 THEN "" ELSE els[n].kind

\* the outcome r of applying what was received: system.py 258-298
Received(data, r, isecho) ==
    /\ first_time' = FALSE
    /\ state' = r.state
    /\ alive' = ~r.exc
    /\ trace' = [trace EXCEPT
           !.devs = Defined(@, parsed_elements(data), r.n),
           !.nsnap = IF Doing("get state") THEN @ + 1 ELSE @,
           !.echoed = IF isecho THEN @ + 1 ELSE @,
           !.echo = isecho,
           !.feeds = IF isecho THEN @ ELSE Min(@ + 1, MaxFeeds),
           !.skipped = Len(data) - Len(SelectSeq(parsed_elements(data),
                                        LAMBDA el : el.kind # "none")),
           !.exc = r.exc,
           !.applied = LastKind(parsed_elements(data), r.n)]

\* one pass of the while loop of _process_tasks: system.py 211-298, with
\* data what cxn.recv returns (<<>>: select reports nothing to read)
Loop(data, isecho) ==
    /\ alive
    /\ task_queue' = IF HasTask THEN get_nowait(task_queue).rest ELSE task_queue
    /\ response_queue' =
          IF Doing("get state")
          THEN Append(response_queue, deepcopy(state, trace.nsnap + 1))
          ELSE response_queue
    /\ sent' = IF Doing("send")
               THEN Append(sent, get_nowait(task_queue).item.cmd)
               ELSE sent
    /\ IF Doing("stop")
       THEN /\ alive' = FALSE
            /\ UNCHANGED <<state, first_time, trace>>
       ELSE IF data = <<>>
       THEN /\ trace' = [trace EXCEPT
                   !.nsnap = IF Doing("get state") THEN @ + 1 ELSE @,
                   !.echo = FALSE, !.skipped = 0, !.applied = ""]
            /\ UNCHANGED <<state, first_time, alive>>
       ELSE Received(data, ApplyAll(state, parsed_elements(data), 1), isecho)
    /\ UNCHANGED <<client, clock>>
    /\ NoEvents

\* nothing to read, or the remote sends something of its own
Worker ==
    \E data \in {<<>>} \cup (IF trace.feeds < MaxFeeds THEN Few ELSE {}) :
        Loop(data, FALSE)

\* the same pass, with anything the remote can send
Feed == \E data \in {<<>>} \cup Batches : Loop(data, FALSE)

\* the remote answers the oldest command not yet answered
Echo ==
    /\ trace.echoed < Len(sent)
    /\ Loop(<<EchoOf(sent[trace.echoed + 1])>>, TRUE)

Kwargs ==
    {<<<<"A", "On">>>>, <<<<"B", "On">>>>}

WorkerSame == UNCHANGED <<state, first_time, alive, sent, trace>>

\* a call ends: the value or the error the caller gets
Done(c, result) ==
    client' = [c EXCEPT !.pc = "idle", !.result = result, !.ret = "top",
                        !.g = 0, !.polls = 0]

\* Connection.state up to the blocking get: system.py 307-310
Enter(c, ret) ==
    IF ~alive
    THEN /\ Done([c EXCEPT !.dead0 = TRUE], "closed")
         /\ UNCHANGED task_queue
    ELSE /\ client' = [c EXCEPT !.pc = "get", !.ret = ret, !.g = clock,
                                !.dead0 = FALSE, !.n0 = trace.nsnap]
         /\ task_queue' = Append(task_queue, Task("get state", NoCmd))

NewCall(op, kw, block) ==
    [client EXCEPT !.op = op, !.kw = kw, !.block = block,
                   !.result = "none", !.calls = @ + 1, !.polls = 0,
                   !.t = clock, !.vec = NoCmd, !.put = FALSE, !.dropped = 0]

\* the client reads cxn.state
Call_state ==
    /\ client.pc = "idle"
    /\ client.calls < MaxCalls
    /\ Enter(NewCall("state", <<>>, FALSE), "top")
    /\ UNCHANGED <<response_queue, clock>>
    /\ WorkerSame
    /\ NoEvents

\* the client calls cxn.set_value("d1", "p", block, None, **kw):
\* system.py 133-134
Call_set_value ==
    /\ client.pc = "idle"
    /\ client.calls < MaxCalls
    /\ \E kw \in Kwargs, block \in BOOLEAN :
          Enter(NewCall("set_value", kw, block), "sv134")
    /\ UNCHANGED <<response_queue, clock>>
    /\ WorkerSame
    /\ NoEvents

\* self.response_queue.get(timeout=self.timeout): system.py 310
Get ==
    /\ client.pc = "get"
    /\ IF More(response_queue)
       THEN /\ client' = [client EXCEPT !.pc = "drain",
                              !.snap = get_nowait(response_queue).item,
                              !.seen = Content(get_nowait(response_queue).item)]
            /\ response_queue' = get_nowait(response_queue).rest
       ELSE /\ clock - client.g >= Timeout
            /\ Done(client, "empty")
            /\ UNCHANGED response_queue
    /\ UNCHANGED <<task_queue, clock>>
    /\ WorkerSame
    /\ NoEvents

\* Connection.state returns c.snap, when trace.nsnap snapshots exist
Handed(c) == [c EXCEPT !.newest = trace.nsnap]

\* set_value has built the command for vector v and put it on the task
\* queue: system.py 153-157; enq lists the commands put so far
Put_send(c, v) ==
    [c EXCEPT !.enq = Append(@, create_xml_command(v, c.kw).cmd),
              !.vec = v, !.put = TRUE]

\* set_value after its first snapshot st: system.py 136-166 up to the
\* polling loop
Lookup(c, st) ==
    IF "d1" \notin DOMAIN st THEN Done(c, "unknown-device") /\ UNCHANGED task_queue
    ELSE IF "p" \notin DOMAIN st["d1"]
         THEN Done(c, "unknown-property") /\ UNCHANGED task_queue
    ELSE IF create_xml_command(st["d1"]["p"], c.kw).exc
         THEN Done(c, "rejected")
              /\ UNCHANGED task_queue
    ELSE /\ task_queue' =
              Append(task_queue,
                     Task("send", create_xml_command(st["d1"]["p"], c.kw).cmd))
         /\ IF c.block
            THEN client' = [Put_send(c, st["d1"]["p"]) EXCEPT
                                !.pc = "loop", !.t = clock]
            ELSE Done(Put_send(c, st["d1"]["p"]), "ok")

\* the test of the polling loop on snapshot st: system.py 162-164
Test(c, st) ==
    IF "d1" \notin DOMAIN st THEN Done(c, "key-error")
    ELSE IF "p" \notin DOMAIN st["d1"] THEN Done(c, "key-error")
    ELSE IF is_set(st["d1"]["p"], c.kw).exc THEN Done(c, "rejected")
    ELSE IF is_set(st["d1"]["p"], c.kw).set THEN Done(c, "ok")
    ELSE client' = [c EXCEPT !.pc = "loop"]

\* the drain loop of Connection.state and the return to its caller:
\* system.py 311-315
Drain ==
    /\ client.pc = "drain"
    /\ IF ~Drained(response_queue)
       THEN /\ client' = [client EXCEPT
                              !.dropped = @ + 1,
                              !.snap = get_nowait(response_queue).item,
                              !.seen = Content(get_nowait(response_queue).item)]
            /\ response_queue' = get_nowait(response_queue).rest
            /\ UNCHANGED task_queue
       ELSE /\ UNCHANGED response_queue
            /\ IF client.ret = "top"
               THEN Done(Handed(client), "ok") /\ UNCHANGED task_queue
               ELSE IF client.ret = "sv134"
               THEN Lookup(Handed(client), Content(client.snap))
               ELSE Test(Handed(client), Content(client.snap))
                    /\ UNCHANGED task_queue
    /\ UNCHANGED clock
    /\ WorkerSame
    /\ NoEvents

\* the head of the polling loop of a blocking set_value: system.py 161-166
Poll ==
    /\ client.pc = "loop"
    /\ IF clock - client.t < Timeout
       THEN /\ client.polls < MaxPolls
            /\ Enter([client EXCEPT !.polls = @ + 1], "sv162")
       ELSE Done(client, "set-timeout") /\ UNCHANGED task_queue
    /\ UNCHANGED <<response_queue, clock>>
    /\ WorkerSame
    /\ NoEvents

\* Connection.close: system.py 330-335; terminate() ends the worker
Close ==
    /\ client.pc = "idle"
    /\ client.calls < MaxCalls
    /\ alive
    /\ client' = [NewCall("close", <<>>, FALSE) EXCEPT !.result = "ok"]
    /\ task_queue' = Append(task_queue, Task("stop", NoCmd))
    /\ alive' = FALSE
    /\ UNCHANGED <<state, first_time, sent, trace, response_queue, clock>>
    /\ NoEvents

\* time passes.  The code compares the time only with a time it read
\* earlier in the same call, so the ticks between two calls are left out.
ClockTick ==
    /\ client.pc # "idle"
    /\ clock < MaxClock
    /\ clock' = clock + 1
    /\ UNCHANGED <<task_queue, response_queue, client>>
    /\ WorkerSame
    /\ NoEvents

InitCxn == InitCxn0 /\ EventsIdle

NextCxn ==
    \/ Worker
    \/ Echo
    \/ Call_state
    \/ Call_set_value
    \/ Get
    \/ Drain
    \/ Poll
    \/ Close
    \/ ClockTick

SpecCxn == InitCxn /\ [][NextCxn]_vars

\* the worker's loop runs on: a pass that finds nothing to read is taken
\* whenever it has something to do
SpecCxnFair == SpecCxn /\ WF_vars(Loop(<<>>, FALSE))

NextMirror == Feed

SpecMirror == InitCxn /\ [][NextMirror]_vars

---------------------------------------------------------------------------
(* Properties of the connection, checked under SpecCxn and SpecMirror *)

\* the elements of vector v that are On
OnSet(v) == {v.names[k] : k \in {j \in DOMAIN v.names : v.val[j] = "On"}}

\* C12: a snapshot the client has received reads as it read on delivery,
\* whatever the worker has applied to its State since.
C12_SnapshotKeepsContent ==
    client.snap # NoSnap => Content(client.snap) = client.seen

\* the client holds a snapshot with d1 in it and the worker's State has
\* moved on since the snapshot was made
C12_MirrorMovedOn ==
    /\ client.snap # NoSnap
    /\ client.pc = "idle"
    /\ "d1" \in DOMAIN client.seen
    /\ client.seen # state

\* C13: the devices of the worker's State (of which every snapshot is a
\* copy) are exactly those that received a definition and no whole-device
\* delete after it.
C13_DevicesAsDefined == DOMAIN state = trace.devs

\* d1 is left with no property (defined, then its property deleted) while
\* d2 is absent
C13_EmptyDeviceStays ==
    /\ "d1" \in DOMAIN state
    /\ DOMAIN state["d1"] = {}
    /\ "d2" \notin DOMAIN state
    /\ trace.applied = "del"

\* C14: after a setSwitchVector has been applied to a vector of the State,
\* a one-of-many vector has exactly one element On and an at-most-one
\* vector at most one.
C14_RuleHoldsAfterSet ==
    ( /\ trace.applied = "set"
      /\ ~trace.exc
      /\ "d1" \in DOMAIN state
      /\ "p" \in DOMAIN state["d1"] )
        => /\ state["d1"]["p"].rule = "OneOfMany"
                => Cardinality(OnSet(state["d1"]["p"])) = 1
           /\ state["d1"]["p"].rule = "AtMostOne"
                => Cardinality(OnSet(state["d1"]["p"])) <= 1

\* the call in progress (or just ended) has put its command, built from
\* a vector under an exclusive rule for a single element X to turn On
SingleOn ==
    /\ client.op = "set_value"
    /\ client.put
    /\ Len(client.kw) = 1
    /\ client.kw[1][2] = "On"
    /\ client.vec.rule \in {"OneOfMany", "AtMostOne"}

\* C15: a single-element write X = On to a one-of-many or at-most-one
\* vector puts one command that sets X On and every other element Off,
\* and once the worker has applied the remote's echo of it the vector has
\* exactly X On.
C15_SingleOnWrite ==
    SingleOn =>
        /\ Range(client.enq[Len(client.enq)].elems) =
              {<<n, IF n = client.kw[1][1] THEN "On" ELSE "Off">> :
                   n \in Range(client.vec.names)}
        /\ Len(client.enq[Len(client.enq)].elems) = Len(client.vec.names)
        /\ ( /\ trace.echo
             /\ ~trace.exc
             /\ trace.echoed = Len(client.enq) + 1
             /\ "d1" \in DOMAIN state
             /\ "p" \in DOMAIN state["d1"] )
              => OnSet(state["d1"]["p"]) = {client.kw[1][1]}

\* B = On written to a vector that had A On, and the echo applied
C15_EchoApplied ==
    /\ SingleOn
    /\ client.kw[1][1] = "B"
    /\ OnSet(client.vec) = {"A"}
    /\ trace.echo
    /\ ~trace.exc
    /\ trace.echoed = Len(client.enq) + 1
    /\ "d1" \in DOMAIN state
    /\ "p" \in DOMAIN state["d1"]
    /\ OnSet(state["d1"]["p"]) = {"B"}

\* C16: a read of Connection.state that returns, returns the snapshot put
\* last on the response queue; a read begun after the worker has ended
\* fails at once, without waiting and without a snapshot.
C16_NewestOrClosed ==
    /\ (client.op = "state" /\ client.pc = "idle" /\ client.result = "ok")
          => client.snap.stamp = client.newest
    /\ client.dead0 => (client.pc = "idle" /\ client.result = "closed")

\* a read that found more than one snapshot queued and dropped the older
C16_DrainedToNewest ==
    /\ client.op = "state"
    /\ client.pc = "idle"
    /\ client.result = "ok"
    /\ client.dropped >= 1
    /\ client.snap.stamp = client.newest

\* the last snapshot the client received has every element of kw as asked
Confirmed(kw, st) ==
    /\ "d1" \in DOMAIN st
    /\ "p" \in DOMAIN st["d1"]
    /\ \A i \in DOMAIN kw :
          \E k \in DOMAIN st["d1"]["p"].names :
              /\ st["d1"]["p"].names[k] = kw[i][1]
              /\ st["d1"]["p"].val[k] = kw[i][2]

\* C17: a blocking set_value returns normally only with a snapshot in
\* which every element asked for has the value asked for; it fails with
\* the set-timeout error only once the timeout has passed.
C17_BlockingSetConfirmed ==
    /\ ( /\ client.op = "set_value"
         /\ client.block
         /\ client.pc = "idle"
         /\ client.result = "ok" )
          => Confirmed(client.kw, client.seen)
    /\ client.result = "set-timeout"
          => /\ client.op = "set_value"
             /\ client.block
             /\ client.put
             /\ clock - client.t >= Timeout

\* a blocking write of B = On to a vector with B Off has returned normally
C17_ReturnedAfterEcho ==
    /\ client.op = "set_value"
    /\ client.block
    /\ client.pc = "idle"
    /\ client.result = "ok"
    /\ client.kw[1][1] = "B"
    /\ "B" \notin OnSet(client.vec)
    /\ trace.echoed >= 2

\* C18: what the worker has written to the socket after its opening
\* getProperties is, in order, a prefix of the commands the client put.
C18_SendsInQueueOrder ==
    /\ Len(sent) - 1 <= Len(client.enq)
    /\ \A k \in 1..(Len(sent) - 1) : sent[k + 1] = client.enq[k]

\* two different commands written
C18_TwoSendsWritten ==
    /\ Len(sent) = 3
    /\ sent[2] # sent[3]

\* C19: nothing the worker receives ends it: the elements that do not
\* parse or cannot be applied are skipped.
C19_NoElementEndsWorker == ~trace.exc

---------------------------------------------------------------------------
(* The chunker: parsing.py 20-37 and 81-126.  A text is a sequence of      *)
(* one-character strings; Python's 0-based text[i:j] is SubSeq(t, i+1, j). *)

IsSpace(c) == c = " "

RECURSIVE lstrip(_)
lstrip(t) == IF t # <<>> /\ IsSpace(Head(t)) THEN lstrip(Tail(t)) ELSE t

RECURSIVE rstrip(_)
rstrip(t) ==
    IF t # <<>> /\ IsSpace(t[Len(t)])
    THEN rstrip(SubSeq(t, 1, Len(t) - 1))
    ELSE t

\* str.strip
strip(t) == rstrip(lstrip(t))

From(t, i) == SubSeq(t, i, Len(t))
Upto(t, i) == SubSeq(t, 1, i)
Least(S) == CHOOSE i \in S : \A j \in S : i <= j
Greatest(S) == CHOOSE i \in S : \A j \in S : i >= j

\* the positions at which pat occurs in t
Occurs(t, pat) ==
    {i \in 1..(Len(t) - Len(pat) + 1) : SubSeq(t, i, i + Len(pat) - 1) = pat}

\* the last occurrence
find_m(t, pat) ==
    IF Occurs(t, pat) = {} THEN 0 ELSE Greatest(Occurs(t, pat))

\* str.find, 1-based; 0 when pat is not in t
find(t, pat) ==
    IF Occurs(t, pat) = {} THEN 0 ELSE Least(Occurs(t, pat))

\* text.split(maxsplit=1)[0] of a text that begins with a character that
\* is no space
FirstWord(t) ==
    IF \E i \in DOMAIN t : IsSpace(t[i])
    THEN Upto(t, Least({i \in DOMAIN t : IsSpace(t[i])}) - 1)
    ELSE t

\* where the for loop of parsing.py 105-115 stops: at "/>" or at ">"
Stops(t) ==
    {i \in 1..(Len(t) - 1) : t[i] = ">" \/ (t[i] = "/" /\ t[i + 1] = ">")}

SelfClosed(t) ==
    /\ Stops(t) # {}
    /\ t[Least(Stops(t))] = "/"

NoChunk(t) == [some |-> FALSE, chunk |-> <<>>, text |-> t]
Chunk(c, t) == [some |-> TRUE, chunk |-> c, text |-> t]

\* parsing.py 117-126, with i where end_str is found (0: it is not)
Balanced(t, end_str, i) ==
    IF i = 0 THEN NoChunk(t)
    ELSE Chunk(strip(Upto(t, i + Len(end_str) - 1)),
               strip(From(t, i + Len(end_str))))

EndStr(t) == <<"<", "/">> \o Tail(FirstWord(t)) \o <<">">>

\* parsing.py 100-126: t begins with "<"
Element(t) ==
    IF Len(t) < 2 THEN NoChunk(t)
    ELSE IF SelfClosed(t)
    THEN Chunk(strip(Upto(t, Least(Stops(t)) + 1)),
               From(t, Least(Stops(t)) + 2))
    ELSE Balanced(t, EndStr(t), find(t, EndStr(t)))

\* parsing.py 88-98: t is stripped
Stripped(t) ==
    IF Len(t) = 0 THEN NoChunk(t)
    ELSE IF t[1] = "<" THEN Element(t)
    ELSE IF find(t, <<"<">>) = 0 THEN NoChunk(<<>>)
    ELSE Element(From(t, find(t, <<"<">>)))

\* _digest_chunk: parsing.py 81-126
digest_chunk(text) == Stripped(strip(text))

\* chunk_xml: parsing.py 20-37; d is what _digest_chunk returned
RECURSIVE Digested(_)
chunk_xml(text) == Digested(digest_chunk(text))
Digested(d) ==
    IF ~d.some THEN [chunks |-> <<>>, text |-> d.text]
    ELSE [chunks |-> <<d.chunk>> \o chunk_xml(d.text).chunks,
          text |-> chunk_xml(d.text).text]

---------------------------------------------------------------------------
(* SpecChunk: text arrives piece by piece and is chunked *)

Pieces ==
    {<<"<", "a">>, <<" ">>, <<">">>, <<"/", ">">>, <<"<", "/", "a", ">">>,
     <<"x">>}

InitChunk == EventsIdle /\ InitCxn0

Arrive ==
    /\ recvs < MaxRecvs
    /\ recvs' = recvs + 1
    /\ \E p \in Pieces :
          /\ partial' = partial \o p
          /\ chunks' = chunk_xml(partial \o p).chunks
    /\ UNCHANGED <<evars, cvars, qvars, new_elements, rem, rpc>>

SpecChunk == InitChunk /\ [][Arrive]_vars


\* C20: the elements chunk_xml finds in any prefix of the text are a
\* prefix of the elements it finds in the whole text.
C20_ChunkingMonotonic ==
    \A k \in 0..Len(partial) :
        IsPrefixOf(chunk_xml(Upto(partial, k)).chunks, chunks)

\* two elements found, the first one balanced, and a prefix of the text
\* in which only the first is found
C20_TwoElements ==
    /\ Len(chunks) = 2
    /\ chunks[1] = <<"<", "a", " ", ">", "<", "/", "a", ">">>
    /\ \E k \in 0..Len(partial) : Len(chunk_xml(Upto(partial, k)).chunks) = 1

---------------------------------------------------------------------------
(* Properties of the events, second part, checked under SpecEv *)

\* the environment of a call in which every read, every blocking write
\* and the upload succeed
AllGood == <<CxAll, TRUE, TRUE>>

\* C21: when _update is called on a running Capture whose camera shows a
\* timestamp other than the one recorded at trigger, and the connection
\* and the upload work, the event becomes finished and the job's record
\* gets "Exposure complete" (written together with solve = unsolved).
C21_CaptureForwardsFrame ==
    [][ ( /\ ev.kind = "Capture"
          /\ ev.status = "Running"
          /\ hw.stamp # ev.aux
          /\ last'.op = "_update"
          /\ ev' = Ev__update(ev, EvWorld(AllGood)).e )
            => /\ ev'.status = "Finished"
               /\ "Exposure complete" \in elog' ]_vars

\* C23: when _update of a series returns, its current sub-event is
\* finished only if it is the last one; where the cursor has moved, the
\* sub-events passed are finished and the one it stands on was triggered.
C23_SeriesChains ==
    [][ ( /\ ev.kind = "Series"
          /\ ev.status \notin {"Finished", "Failed"}
          /\ last'.op = "_update" )
            => /\ Cur(ev').status = "Finished"
                    => ev'.current = Len(ev'.event_list)
               /\ ev'.current > ev.current
                    => /\ Cur(ev').trig >= 1
                       /\ \A k \in ev.current..(ev'.current - 1) :
                             ev'.event_list[k].status = "Finished" ]_vars

\* an _update has left the series on its second sub-event, running, with
\* the first one finished
C23_ChainedToNext ==
    /\ ev.kind = "Series"
    /\ last.op = "_update"
    /\ ev.current = 2
    /\ ev.event_list[1].status = "Finished"
    /\ Cur(ev).status = "Running"
    /\ Cur(ev).trig >= 1

\* C24: _update on an event that is finished or failed changes neither
\* the event nor the devices nor the job's record, and returns normally.
C24_DoneUpdateNoOp ==
    [][ ( /\ ev.status \in {"Finished", "Failed"}
          /\ last'.op = "_update" )
            => /\ ev' = ev
               /\ hw' = hw
               /\ elog' = elog
               /\ ~last'.exc ]_vars

\* _update was called on a failed series whose current sub-event is still
\* running
C24_UpdatedWhenDone ==
    /\ last.op = "_update"
    /\ last.done
    /\ ev.kind = "Series"
    /\ ev.status = "Failed"
    /\ Cur(ev).status = "Running"

\* C25: no exception raised inside _trigger, _update or _cancel reaches
\* the caller, for a leaf, a series and a time-window wrapper alike.
C25_ExceptionsContained ==
    last.op \in {"_trigger", "_update", "_cancel"} => ~last.exc

\* the _Sync events of e
Syncs(e) ==
    (IF e.kind = "_Sync" THEN {e} ELSE {})
    \cup {e.event_list[k] :
            k \in {j \in DOMAIN e.event_list : e.event_list[j].kind = "_Sync"}}

\* C30: after an _update of an event that was not done, with the job's
\* solve field solve-failed or don't-solve, a _Sync that has been
\* triggered is failed, and a _Sync is finished only with solve = solved.
C30_SyncEndsOnSolverOutcome ==
    /\ ( /\ last.op = "_update"
         /\ ~last.done
         /\ jobs[1].solve \in {"SOLVE_FAILED", "DONT_SOLVE"} )
          => \A y \in Syncs(ev) : y.trig >= 1 => y.status = "Failed"
    /\ \A y \in Syncs(ev) : y.status = "Finished" => jobs[1].solve = "SOLVED"

---------------------------------------------------------------------------
(* Properties of run_schedule, second part, checked under SpecSched.  The  *)
(* fields finished, failed, unparsed, parsed, stale and gone of sweep are  *)
(* what the last pass met: the events it saw done, the new queued jobs     *)
(* that did and did not parse, the jobs RUNNING without an event, and the  *)
(* events whose job had left the catalog.                                  *)

\* C26: a queued job whose parse raises is failed in the catalog with the
\* text in its log and gets no event; the new jobs of the same intake
\* that do parse get their event (which the sweep of the same pass may
\* remove again once it is done).
C26_ParseFailureSkipped ==
    /\ \A i \in sweep.unparsed :
          /\ jobs[i].status = "FAILED"
          /\ "Failed to parse job" \in jobs[i].log
          /\ i \notin Keys(event_map)
    /\ \A i \in sweep.parsed :
          \/ i \in Keys(event_map)
          \/ i \in sweep.finished \cup sweep.failed

\* an intake met a job that does not parse and, after it in the list, one
\* that does
C26_FailedThenParsed ==
    \E i \in sweep.unparsed, j \in sweep.parsed :
        /\ i < j
        /\ jobs[i].priority = jobs[j].priority
        /\ j \in Keys(event_map)

C29_StaleRunningFailed ==
    \A i \in sweep.stale :
        /\ jobs[i].status = "FAILED"
        /\ "Job was running, but no event found." \in jobs[i].log

---------------------------------------------------------------------------
(* SpecRecv: the receive step of Connection._process_tasks,                *)
(* system.py 235-256                                                       *)

\* what one cxn.recv returns: the socket cuts the stream where it likes
Slices ==
    {<<"<", "a", "/", ">">>, <<"<", "a">>, <<"/", ">">>, <<">">>,
     <<"<", "/", "a", ">">>, <<"<", "a", "/", ">", "<", "a">>}

\* the while loop is left when nothing is left over
After(left) == IF left = <<>> THEN "apply" ELSE "more"

\* system.py 235-239: data = cxn.recv(); partial = data.decode();
\* new_elements, rem = chunk_xml(partial)
RecvFirst ==
    /\ rpc = "select"
    /\ recvs < MaxRecvs
    /\ recvs' = recvs + 1
    /\ \E data \in Slices :
          /\ partial' = data
          /\ new_elements' = chunk_xml(data).chunks
          /\ rem' = chunk_xml(data).text
          /\ rpc' = After(chunk_xml(data).text)
    /\ UNCHANGED <<evars, cvars, qvars, chunks>>

\* system.py 252-256: data = cxn.recv(); partial = partial + data.decode();
\* chunks, rem = chunk_xml(partial); new_elements.extend(chunks)
RecvMore ==
    /\ rpc = "more"
    /\ recvs < MaxRecvs
    /\ recvs' = recvs + 1
    /\ \E data \in Slices :
          /\ partial' = partial \o data
          /\ new_elements' = new_elements \o chunk_xml(partial \o data).chunks
          /\ rem' = chunk_xml(partial \o data).text
          /\ rpc' = After(chunk_xml(partial \o data).text)
    /\ UNCHANGED <<evars, cvars, qvars, chunks>>

\* system.py 245-250: the timeout has passed: partial = ""; break
RecvTimeout ==
    /\ rpc = "more"
    /\ partial' = <<>>
    /\ rpc' = "apply"
    /\ UNCHANGED <<evars, cvars, qvars, chunks, recvs, new_elements, rem>>

\* system.py 258-267 and on: the elements are parsed and applied, and the
\* worker is back at the top of its loop
Applied ==
    /\ rpc = "apply"
    /\ rpc' = "select"
    /\ partial' = <<>>
    /\ new_elements' = <<>>
    /\ rem' = <<>>
    /\ UNCHANGED <<evars, cvars, qvars, chunks, recvs>>

NextRecv ==
    \/ RecvFirst
    \/ RecvMore
    \/ RecvTimeout
    \/ Applied

SpecRecv == InitChunk /\ [][NextRecv]_vars

\* C22: when the worker leaves its receive step with nothing left over,
\* the elements it is about to apply are those of the received text
\* chunked at once, each once and in order.
C22_SlicesChunkAsWhole ==
    (rpc = "apply" /\ rem = <<>>) =>
        new_elements = chunk_xml(partial).chunks

---------------------------------------------------------------------------
(* Properties of the events, third part, checked under SpecEv *)

C35_SeriesStartKept ==
    [][ (/\ ev.kind = "Series"
         /\ ev.start # NoTime
         /\ last'.op = "_update")
            => ev'.start = ev.start ]_vars

\* the statuses of an event, of the events it holds and of those they hold
Statuses(e) ==
    <<e.status>>
    \o [k \in DOMAIN e.event_list |-> e.event_list[k].status]
    \o (IF e.kind = "TimeConstrained"
        THEN [k \in DOMAIN Inner(e).event_list |->
                 Inner(e).event_list[k].status]
        ELSE <<>>)

\* C36: a status that is Finished or Failed stays what it is, in the event
\* and in every event it holds, whatever is called on the event.
C36_DoneIsAbsorbing ==
    [][ \A k \in DOMAIN Statuses(ev) :
           is_done(Statuses(ev)[k]) => Statuses(ev')[k] = Statuses(ev)[k] ]_vars

---------------------------------------------------------------------------
(* Properties of run_schedule, third part, checked under SpecSched.  The   *)
(* fields refused, kept and refetched of sweep are what the last pass met: *)
(* the jobs whose status update_job failed to write, whether the intake    *)
(* left the events of the map as they were, and the queued jobs fetched    *)
(* again while their event, changed since it was parsed, was in the map.   *)

---------------------------------------------------------------------------
(* Properties of the connection, second part, checked under SpecCxn and    *)
(* SpecCxnFair.  n0 of the client is the number of snapshots the worker    *)
(* had made when the read of Connection.state in progress began.           *)

\* C39: the snapshot a read of Connection.state returns was made after
\* the read began.
C39_SnapshotAfterCallStart ==
    (client.op = "state" /\ client.pc = "idle" /\ client.result = "ok")
        => client.snap.stamp > client.n0

\* a get-state request is on the task queue
Pending == \E k \in DOMAIN task_queue : task_queue[k].t = "get state"

\* C40: while the worker is alive, a get-state request on the task queue
\* is eventually taken and answered, whether or not the remote sends
\* anything.
C40_RequestsAnswered == Pending ~> (~Pending \/ ~alive)

---------------------------------------------------------------------------
(* SpecQueue: the worker of the queue-driven Scheduler,                    *)
(* Scheduler._process_tasks, scheduler.py 188-263.  Its events are         *)
(* objects of classes outside the package; an event is its priority and    *)
(* its status, which follows EventStatus.next.                             *)

\* EventStatus.is_started: scheduler.py 31-33
is_started(status) == status \notin {"Ready", "NotReady"}

\* EventStatus.next without the step trigger makes: scheduler.py 35-53
next(status) ==
    CASE status = "NotReady" -> "Ready"
      [] status = "Running" -> "Finished"
      [] status = "Canceling" -> "Failed"
      [] OTHER -> status

\* event.cancel(cxn) on the events evs: the running event is being
\* cancelled
cancel(evs, id) ==
    IF is_active(evs[id].status) THEN [evs EXCEPT ![id].status = "Canceling"]
    ELSE evs

\* event.trigger(cxn): the event begins
trigger(evs, id) == [evs EXCEPT ![id].status = "Running"]

\* event_list.append(value); event_list.sort(): scheduler.py 240-241.  The
\* list was sorted, sort is stable and ascending in __lt__ (88-89).
Sorted(list, evs, id) ==
    LET before == SelectSeq(list, LAMBDA x : evs[x].priority <= evs[id].priority)
        after == SelectSeq(list, LAMBDA x : evs[x].priority > evs[id].priority)
    IN  before \o <<id>> \o after

\* the locals of the worker, the events and the marks, as one record
Local(sc, evs, mk) ==
    [event_list |-> sc.event_list, running |-> sc.running, events |-> evs,
     marks |-> mk]

ToSet(list) == {list[k] : k \in DOMAIN list}

\* what a clear that leaves the list kept has done to the events of l
Cleared(l, kept) ==
    [l EXCEPT
       !.event_list = kept,
       !.marks.dropped = @ \cup (ToSet(l.event_list) \ ToSet(kept)),
       !.marks.missed =
           @ \cup {x \in ToSet(l.event_list) \ ToSet(kept) :
                      is_active(l.events[x].status)}]

\* one command taken from the queue: scheduler.py 208-243
Serve(l, task) ==
    CASE task.cmd = "clear" ->
           IF l.running # 0
           THEN Cleared([l EXCEPT !.events = cancel(@, l.running)],
                        <<l.running>>)
           ELSE Cleared(l, <<>>)
      [] task.cmd = "event" ->
           IF is_started(l.events[task.value].status) THEN l
           ELSE [l EXCEPT !.event_list = Sorted(@, l.events, task.value)]
      [] OTHER -> l

\* while not task_queue.empty(): scheduler.py 206-243
RECURSIVE ServeAll(_, _)
ServeAll(l, tasks) ==
    IF tasks = <<>> THEN l ELSE ServeAll(Serve(l, Head(tasks)), Tail(tasks))

Last(list, ok(_)) ==
    IF \E k \in DOMAIN list : ok(list[k])
    THEN list[Greatest({k \in DOMAIN list : ok(list[k])})]
    ELSE 0

First(list, ok(_)) ==
    IF \E k \in DOMAIN list : ok(list[k])
    THEN list[Least({k \in DOMAIN list : ok(list[k])})]
    ELSE 0

\* the for loop over event_list: scheduler.py 245-259
Checked(l) ==
    [l EXCEPT
       !.running = Last(l.event_list,
                        LAMBDA x : is_active(l.events[x].status)),
       !.event_list = SelectSeq(l.event_list,
                                LAMBDA x : ~is_done(l.events[x].status))]

\* the first event of the list that is Ready
ToTrigger(l) == First(l.event_list, LAMBDA x : l.events[x].status = "Ready")

\* if running is None and trigger is not None: trigger.trigger(cxn):
\* scheduler.py 261-263
Fired(l, id) ==
    IF l.running = 0 /\ id # 0
    THEN [l EXCEPT !.events = trigger(@, id),
                   !.marks.late = @ \cup ({id} \cap l.marks.dropped)]
    ELSE l

QueueSame == UNCHANGED <<evars, cvars, kvars>>

\* one pass of the while loop: scheduler.py 200-263
Pass ==
    /\ \E l \in {Checked(ServeAll(Local(sched, events, marks),
                                    sched.task_queue))} :
       \E f \in {Fired(l, ToTrigger(l))} :
          /\ sched' = [sched EXCEPT !.task_queue = <<>>,
                                    !.event_list = f.event_list,
                                    !.running = f.running]
          /\ events' = f.events
          /\ marks' = f.marks
    /\ QueueSame

\* Scheduler.add_event: scheduler.py 171-172
add_event ==
    /\ Len(events) < MaxEvents
    /\ Len(sched.task_queue) < MaxTasks
    /\ \E p \in Prios, st \in {"NotReady", "Ready"} :
          events' = Append(events, [priority |-> p, status |-> st])
    /\ sched' = [sched EXCEPT
           !.task_queue = Append(@, [cmd |-> "event", value |-> Len(events) + 1])]
    /\ UNCHANGED marks
    /\ QueueSame

\* Scheduler.cancel: scheduler.py 177-178
Clear ==
    /\ sched.clears < MaxClears
    /\ Len(sched.task_queue) < MaxTasks
    /\ sched' = [sched EXCEPT
           !.task_queue = Append(@, [cmd |-> "clear", value |-> 0]),
           !.clears = @ + 1]
    /\ UNCHANGED <<events, marks>>
    /\ QueueSame

\* an event that is not ready becomes ready, one that runs finishes, one
\* that is being cancelled fails
Advance ==
    /\ \E id \in DOMAIN events :
          /\ next(events[id].status) # events[id].status
          /\ events' = [events EXCEPT ![id].status = next(@)]
    /\ UNCHANGED <<sched, marks>>
    /\ QueueSame

NextQueue ==
    \/ Pass
    \/ add_event
    \/ Clear
    \/ Advance

SpecQueue == InitChunk /\ [][NextQueue]_vars

\* C33: a clear drops no active event without calling cancel on it, and
\* no event a clear has dropped is triggered afterwards.
C33_ClearCancelsActive ==
    /\ marks.missed = {}
    /\ marks.late = {}

====
